---- MODULE Spec2Model ----
(***************************************************************************)
(* Goal execution orchestration engine of the task automation agent:       *)
(* TaskOrchestrator (plan run, escalation, human input), ExecutorAgent     *)
(* (retry loop), ToolRegistry (tool invocation), HumanInterfaceAgent       *)
(* (escalation vocabulary, response validation), PlannerAgent (plan        *)
(* construction) and MemoryManager (session store, pattern store).         *)
(*                                                                         *)
(* Strings that the code inspects character by character (descriptions,    *)
(* keywords, ids, file names) are sequences of one-character strings.      *)
(***************************************************************************)
EXTENDS Integers, Sequences, FiniteSets, TLC

\* ------------------------------------------------------------------ bounds

\* Largest max_retries a task of the model is given (models.py defaults to 3).
MaxRetriesBound == 2

\* Largest number of ExecutionResults of a session handed to the session store.
MaxResults == 2

\* Largest number of LearnedPatterns in the pattern store.
MaxPatterns == 2

\* Largest usage_count a stored pattern reaches.
MaxUsage == 1

\* Longest dependency list handed to _can_execute_task on its own.
MaxDeps == 2

\* Longest task_order of a planning response.
MaxOrderLen == 3

\* ------------------------------------------------------------ enumerations

\* models.TaskStatus
PENDING == "pending"
IN_PROGRESS == "in_progress"
COMPLETED == "completed"
FAILED == "failed"
SKIPPED == "skipped"
WAITING_FOR_HUMAN == "waiting_for_human"

TaskStatus == {PENDING, IN_PROGRESS, COMPLETED, FAILED, SKIPPED, WAITING_FOR_HUMAN}

\* Python's None, for optional string fields.
None == "None"

\* ----------------------------------------------------------------- strings

Range(s) == {s[i] : i \in DOMAIN s}

\* str.lower() on the letters that occur in the model's descriptions.
LowerChar(c) ==
    CASE c = "M" -> "m"
      [] c = "D" -> "d"
      [] c = "R" -> "r"
      [] c = "O" -> "o"
      [] c = "P" -> "p"
      [] OTHER -> c

Lower(s) == [i \in DOMAIN s |-> LowerChar(s[i])]

\* Python's `kw in s` on strings: kw occurs as a contiguous substring of s.
Contains(s, kw) ==
    \E i \in 1..(Len(s) - Len(kw) + 1) : SubSeq(s, i, i + Len(kw) - 1) = kw

ContainsAny(s, kws) == \E kw \in kws : Contains(s, kw)

\* The task descriptions of the model.
DescDelete == <<"d","e","l","e","t","e"," ","t","h","e"," ","c","o","n","f","i","g"," ","f","i","l","e">>
DescCreate == <<"c","r","e","a","t","e"," ","f","i","l","e"," ","n","o","t","e","s",".","t","x","t">>
DescCommit == <<"c","o","m","m","i","t"," ","c","h","a","n","g","e","s">>
DescMaybe == <<"M","a","y","b","e"," ","t","i","d","y"," ","u","p">>
DescCheck == <<"c","h","e","c","k"," ","t","h","e"," ","f","i","l","e">>

Descriptions == {DescDelete, DescCreate, DescCommit, DescMaybe, DescCheck}

\* --------------------------------------------------- HumanInterfaceAgent

destructive_keywords ==
    { <<"d","e","l","e","t","e">>,
      <<"r","e","m","o","v","e">>,
      <<"d","r","o","p">>,
      <<"d","e","s","t","r","o","y">>,
      <<"c","l","e","a","r">>,
      <<"u","n","i","n","s","t","a","l","l">>,
      <<"f","o","r","m","a","t">>,
      <<"w","i","p","e">>,
      <<"t","r","u","n","c","a","t","e">> }

ambiguous_indicators ==
    { <<"m","a","y","b","e">>,
      <<"p","e","r","h","a","p","s">>,
      <<"c","o","u","l","d">>,
      <<"m","i","g","h","t">>,
      <<"p","o","s","s","i","b","l","y">>,
      <<"n","o","t"," ","s","u","r","e">>,
      <<"u","n","c","l","e","a","r">>,
      <<"v","a","g","u","e">> }

\* A faulty _is_destructive_operation that never consults the vocabulary.
IsDestructiveOperation_Never(desc) == FALSE

\* _is_destructive_operation: a destructive keyword occurs in the lowered description.
IsDestructiveOperation(desc) == ContainsAny(Lower(desc), destructive_keywords)

\* _is_ambiguous: an ambiguity indicator occurs in the lowered description.
IsAmbiguous(desc) == ContainsAny(Lower(desc), ambiguous_indicators)

\* should_escalate(task): destructive, or ambiguous, or the language model
\* answers that several approaches exist (multi: its answer, consulted only
\* when the two vocabularies do not match; the orchestrator passes no context).
ShouldEscalate(desc, multi) ==
    IF IsDestructiveOperation(desc) THEN TRUE
    ELSE IF IsAmbiguous(desc) THEN TRUE
    ELSE multi

\* The vocabularies decide on their own: the language model is not consulted.
EscalatesByKeyword(desc) == IsDestructiveOperation(desc) \/ IsAmbiguous(desc)

\* Python values that may come as a human response (`response: Any`): an
\* int, a str, a bool, a float and None.  int holds the numeric value (True is
\* 1 and False is 0, as Python compares them), str the text.
PyInt(i) == [type |-> "int", int |-> i, str |-> ""]
PyStr(text) == [type |-> "str", int |-> 0, str |-> text]
PyBool(b) == [type |-> "bool", int |-> IF b THEN 1 ELSE 0, str |-> ""]
PyFloatOne == [type |-> "float", int |-> 1, str |-> ""]
PyNone == [type |-> "NoneType", int |-> 0, str |-> ""]

\* isinstance(value, int): bool is a subclass of int.
IsInstanceInt(value) == value.type \in {"int", "bool"}

\* isinstance(value, str)
IsInstanceStr(value) == value.type = "str"

\* The mapping process_human_response returns.
Processed(success, selected_option, error) ==
    [success |-> success, selected_option |-> selected_option, error |-> error]

\* A faulty process_human_response that reads the response as a 0-based index.
ProcessHumanResponse_ZeroBased(options, response) ==
    IF options /= <<>>
    THEN IF IsInstanceInt(response) /\ 0 <= response.int /\ response.int < Len(options)
         THEN Processed(TRUE, options[response.int + 1], None)
         ELSE IF IsInstanceStr(response) /\ response.str \in Range(options)
         THEN Processed(TRUE, response.str, None)
         ELSE Processed(FALSE, None, "Invalid response")
    ELSE Processed(TRUE, None, None)

\* process_human_response(request, response), lines 175-192: with fixed
\* options the response must be a 1-based index or one of the options;
\* without options (None or an empty list, <<>> here) any response is
\* accepted.  Options are a sequence of strings.
ProcessHumanResponse(options, response) ==
    IF options /= <<>>
    THEN IF IsInstanceInt(response) /\ 1 <= response.int /\ response.int <= Len(options)
         THEN Processed(TRUE, options[response.int], None)
         ELSE IF IsInstanceStr(response) /\ response.str \in Range(options)
         THEN Processed(TRUE, response.str, None)
         ELSE Processed(FALSE, None, "Invalid response")
    ELSE Processed(TRUE, None, None)

\* ------------------------------------------------------------ ExecutorAgent

file_keywords ==
    { <<"f","i","l","e">>,
      <<"c","r","e","a","t","e"," ","f","i","l","e">>,
      <<"r","e","a","d"," ","f","i","l","e">>,
      <<"w","r","i","t","e">>,
      <<"d","i","r","e","c","t","o","r","y">> }

git_keywords ==
    { <<"g","i","t">>,
      <<"c","o","m","m","i","t">>,
      <<"b","r","a","n","c","h">>,
      <<"r","e","p","o","s","i","t","o","r","y">> }

web_keywords ==
    { <<"d","o","w","n","l","o","a","d">>,
      <<"f","e","t","c","h">>,
      <<"r","e","q","u","e","s","t">>,
      <<"h","t","t","p">>,
      <<"u","r","l">> }

command_keywords ==
    { <<"r","u","n">>,
      <<"e","x","e","c","u","t","e">>,
      <<"c","o","m","m","a","n","d">>,
      <<"i","n","s","t","a","l","l">>,
      <<"p","y","t","h","o","n">>,
      <<"n","p","m">> }

\* _infer_tool(description)
InferTool(desc) ==
    IF ContainsAny(Lower(desc), file_keywords) THEN "file_operations"
    ELSE IF ContainsAny(Lower(desc), git_keywords) THEN "git_operations"
    ELSE IF ContainsAny(Lower(desc), web_keywords) THEN "web_operations"
    ELSE IF ContainsAny(Lower(desc), command_keywords) THEN "command_executor"
    ELSE None

\* _get_default_operation(tool_name, description)
GetDefaultOperation(tool_name, desc) ==
    LET d == Lower(desc) IN
    IF tool_name = "file_operations"
    THEN IF Contains(d, <<"c","r","e","a","t","e">>) \/ Contains(d, <<"w","r","i","t","e">>)
            THEN "create_file"
         ELSE IF Contains(d, <<"r","e","a","d">>) THEN "read_file"
         ELSE IF Contains(d, <<"d","i","r","e","c","t","o","r","y">>)
                 \/ Contains(d, <<"f","o","l","d","e","r">>) THEN "create_directory"
         ELSE IF Contains(d, <<"l","i","s","t">>) THEN "list_directory"
         ELSE IF Contains(d, <<"d","e","l","e","t","e">>) THEN "delete_file"
         ELSE None
    ELSE IF tool_name = "git_operations"
    THEN IF Contains(d, <<"i","n","i","t">>) \/ Contains(d, <<"i","n","i","t","i","a","l","i","z","e">>)
            THEN "initialize_repo"
         ELSE IF Contains(d, <<"b","r","a","n","c","h">>) THEN "create_branch"
         ELSE IF Contains(d, <<"c","o","m","m","i","t">>) THEN "commit"
         ELSE IF Contains(d, <<"s","t","a","t","u","s">>) THEN "get_status"
         ELSE None
    ELSE IF tool_name = "web_operations"
    THEN IF Contains(d, <<"d","o","w","n","l","o","a","d">>) THEN "download_file"
         ELSE IF Contains(d, <<"g","e","t">>) \/ Contains(d, <<"f","e","t","c","h">>) THEN "get"
         ELSE IF Contains(d, <<"p","o","s","t">>) THEN "post"
         ELSE None
    ELSE IF tool_name = "command_executor" THEN "execute_safe"
    ELSE None

\* `tool_name.split(".", 1)` on the tool strings of the model
\* (_execute_tool_operation lines 165-169): the part before the first dot.
ToolName(t) ==
    CASE t = "file_operations.read_file" -> "file_operations"
      [] t = "file_operations.frobnicate" -> "file_operations"
      [] t = "database.query" -> "database"
      [] OTHER -> t

\* The part after the first dot, None when the string has no dot.
ToolOperation(t) ==
    CASE t = "file_operations.read_file" -> "read_file"
      [] t = "file_operations.frobnicate" -> "frobnicate"
      [] t = "database.query" -> "query"
      [] OTHER -> None

\* ------------------------------------------------------------- ToolRegistry

\* _initialize_tools: the names under which a tool is registered.
RegisteredTools == {"file_operations", "git_operations", "command_executor", "web_operations"}

\* hasattr(tool, operation): the public methods of each tool.
ToolOperations(tool_name) ==
    CASE tool_name = "file_operations" ->
           {"create_file", "read_file", "create_directory", "list_directory", "delete_file"}
      [] tool_name = "git_operations" ->
           {"initialize_repo", "create_branch", "commit", "get_status",
            "get_current_branch", "push", "pull", "add_remote"}
      [] tool_name = "command_executor" -> {"execute", "execute_safe"}
      [] tool_name = "web_operations" -> {"get", "post", "download_file"}
      [] OTHER -> {}

\* What a call hands back: a mapping (has_success: it carries the success
\* key) or, with raised, an exception that leaves the call.
GatewayResult(cause, raised, has_success, success, error) ==
    [cause |-> cause, raised |-> raised, has_success |-> has_success,
     success |-> success, error |-> error]

\* A faulty execute_tool that calls the method outside of a try block.
ExecuteTool_NoTry(tool_name, operation, behaviour) ==
    IF tool_name \notin RegisteredTools
    THEN GatewayResult("ToolNotFound", FALSE, TRUE, FALSE, "Tool not found")
    ELSE IF operation \notin ToolOperations(tool_name)
    THEN GatewayResult("OperationNotFound", FALSE, TRUE, FALSE, "Operation not found")
    ELSE CASE behaviour = "raises" ->
                GatewayResult("InvocationError", TRUE, FALSE, FALSE, "Exception")
           [] behaviour = "returns_success" ->
                GatewayResult("returned", FALSE, TRUE, TRUE, None)
           [] behaviour = "returns_failure" ->
                GatewayResult("returned", FALSE, TRUE, FALSE, "tool error")
           [] behaviour = "no_success_key" ->
                GatewayResult("returned", FALSE, FALSE, FALSE, None)

\* execute_tool(tool_name, operation, **kwargs): an unregistered name, an
\* operation the tool lacks and an exception of the method each become a
\* mapping with success false and an error message; otherwise the mapping
\* the method returned is passed on.
ExecuteTool(tool_name, operation, behaviour) ==
    IF tool_name \notin RegisteredTools
    THEN GatewayResult("ToolNotFound", FALSE, TRUE, FALSE, "Tool not found")
    ELSE IF operation \notin ToolOperations(tool_name)
    THEN GatewayResult("OperationNotFound", FALSE, TRUE, FALSE, "Operation not found")
    ELSE CASE behaviour = "raises" ->
                GatewayResult("InvocationError", FALSE, TRUE, FALSE, "Error executing")
           [] behaviour = "returns_success" ->
                GatewayResult("returned", FALSE, TRUE, TRUE, None)
           [] behaviour = "returns_failure" ->
                GatewayResult("returned", FALSE, TRUE, FALSE, "tool error")
           [] behaviour = "no_success_key" ->
                GatewayResult("returned", FALSE, FALSE, FALSE, None)

\* _execute_tool_operation lines 165-180: the tool string is split and a
\* missing operation is defaulted from the description.
ResolveOperation(tool_string, desc) ==
    LET tool_name == ToolName(tool_string) IN
    [tool_name |-> tool_name,
     operation |-> IF ToolOperation(tool_string) = None
                   THEN GetDefaultOperation(tool_name, desc)
                   ELSE ToolOperation(tool_string)]

\* _execute_tool_operation lines 182-189: without an operation the failure
\* mapping is built before the registry is reached, else the registry is called.
ExecuteToolOperation(resolved, behaviour) ==
    IF resolved.operation = None
    THEN GatewayResult("NoOperation", FALSE, TRUE, FALSE, "Could not determine operation")
    ELSE ExecuteTool(resolved.tool_name, resolved.operation, behaviour)

\* The exception classes that occur in the model, all subclasses of Exception.
ExceptionClasses == {"Exception", "KeyError", "AttributeError"}

\* A faulty handler in execute_task that catches ValueError only.
ExecutorCatches_ValueErrorOnly(exc) == exc \in {"ValueError"}

\* A faulty handler in execute_task that lets KeyError pass.
ExecutorCatches_NotKeyError(exc) == exc \in ExceptionClasses \ {"KeyError"}

\* execute_task line 99: `except Exception`.
ExecutorCatches(exc) == exc \in ExceptionClasses

\* ------------------------------------------------------------- plan inputs

TaskIds == {"A", "B", "C"}

\* An id that names no task of the goal.
UnknownId == "X"

\* Goal.id: execute_goal draws a uuid4 string; a caller-built goal may carry
\* any string, the empty one included.
GoalIds == { <<"g","1">>, <<>> }

\* Dependency lists given to a task of a two-task plan.
DepLists == { <<>>, <<"A">>, <<"B">>, <<UnknownId>> }

\* Parallel groups of a two-task plan as the planner passes them on (it only
\* filters unknown ids, planner_agent.py:117-122): none, an id twice in one
\* group, an id in two groups, and the dependent task listed first.
GroupChoices ==
    { <<>>,
      << <<"A", "A">> >>,
      << <<"A">>, <<"A", "B">> >>,
      << <<"B">>, <<"A">> >> }

\* What a human may answer.
Responses == {"yes", "no"}

\* The human_input_callback given to the orchestrator: none, or a callback
\* that returns a fixed answer.
HumanCallbacks == {None} \cup Responses

\* What the method of a tool may do when the registry calls it: return a
\* mapping with success true, return a mapping with success false, raise, or
\* return a mapping without the success key.
ToolBehaviours == {"returns_success", "returns_failure", "raises", "no_success_key"}

\* Task.tool as set by the decomposition, "tool_name" or "tool_name.operation":
\* absent, a registered tool, a registered tool with an operation it has, a
\* registered tool with an operation it lacks, an unregistered tool with an
\* operation, and an unregistered tool alone.
GivenTools ==
    { None, "file_operations", "file_operations.read_file",
      "file_operations.frobnicate", "database.query", "database" }

\* One entry of the "patterns" list of the language model's answer: a mapping
\* with or without the "type" and "confidence" keys (None: the key is absent;
\* the confidence is in units of 1/ConfidenceScale), or something that is no
\* mapping.
PatternEntry(type, confidence) == [is_mapping |-> TRUE, type |-> type, confidence |-> confidence]

NoMappingEntry == [is_mapping |-> FALSE, type |-> None, confidence |-> None]

\* The language model's answer as _identify_patterns_with_llm sees it: the
\* call raises, or the parsed answer has or lacks the "patterns" key.
LLMAnswer(raises, has_patterns, entries) ==
    [raises |-> raises, has_patterns |-> has_patterns, patterns |-> entries]

\* An answer with one pattern of type "optimization".
OptimizationAnswer == LLMAnswer(FALSE, TRUE, << PatternEntry("optimization", None) >>)

\* The answers of the model: the call raises; the answer is no JSON or has no
\* "patterns" key; an empty list; one pattern; patterns of the types the
\* prompt offers (line 190); a pattern without keys; and a list whose second
\* entry is no mapping.
LLMAnswers ==
    { LLMAnswer(TRUE, FALSE, <<>>),
      LLMAnswer(FALSE, FALSE, <<>>),
      LLMAnswer(FALSE, TRUE, <<>>),
      OptimizationAnswer,
      LLMAnswer(FALSE, TRUE, << PatternEntry("successful_approach", None),
                                PatternEntry("failed_approach", None) >>),
      LLMAnswer(FALSE, TRUE, << PatternEntry(None, None) >>),
      LLMAnswer(FALSE, TRUE, << PatternEntry("optimization", None), NoMappingEntry >>) }

Perms(S) == {p \in [1..Cardinality(S) -> S] : \A i, j \in 1..Cardinality(S) : p[i] = p[j] => i = j}

RECURSIVE Flatten(_)
Flatten(groups) ==
    IF groups = <<>> THEN <<>> ELSE Head(groups) \o Flatten(Tail(groups))

\* ------------------------------------------------------------------- state

VARIABLES
    tasks,                 \* ExecutionPlan.tasks: the plan's task ids, in plan order
    dependencies,          \* Task.dependencies, per task id
    parallel_groups,       \* ExecutionPlan.parallel_groups
    description,           \* Task.description, per task id
    max_retries,           \* Task.max_retries, per task id
    human_input_callback,  \* None, or the answer the given callback returns
    goal_id,               \* Goal.id = GoalSession.id
    status,                \* Task.status, per task id
    retry_count,           \* Task.retry_count, per task id
    tool,                  \* Task.tool, per task id (None until inferred)
    goal_status,           \* Goal.status
    executed_tasks,        \* _execute_plan's executed_tasks set
    results,               \* _execute_plan's results list
    requests,              \* every HumanInputRequest created, by id (1, 2, ...)
    human_inputs,          \* GoalSession.human_inputs: request ids
    pending_human_inputs,  \* TaskOrchestrator.pending_human_inputs: request ids
    pc,                    \* where the orchestrator stands
    idx,                   \* position in the parallel-group items or in tasks
    cur,                   \* the task whose dispatch waits for the callback or a tool, or None
    caller,                \* the loop that dispatched cur ("groups" / "tasks")
    dispatch_log,          \* history: task ids in the order they were dispatched
    dispatch_phase,        \* history: the loop that made each dispatch ("groups" / "tasks")
    escalation_checks,     \* history: calls of should_escalate, per task
    attempts,              \* history: calls of _execute_tool_operation, per task
    invoked,               \* history: calls of ToolRegistry.execute_tool, per task
    failures,              \* history: failure outcomes handed to the executor, per task
    session_files,         \* sessions_dir: the files, each a name and its session data
    saved_sessions,        \* history: the session objects last saved, one per id
    loaded,                \* what the last load_session returned
    gateway_result,        \* history: what the last _execute_tool_operation handed back
    patterns,              \* MemoryManager._patterns: the stored LearnedPatterns, in list order
    patterns_file,         \* learned_patterns.json: the patterns as last written
    goal_tasks,            \* Goal.tasks: the goal's task ids, in the goal's order
    plan_data,             \* the planning response handed to _create_plan_from_response
    store_fails,           \* whether opening a file of the store raises OSError
    llm_response,          \* what the language model answers to the pattern analysis prompt
    ret                    \* what the last call of the public interface returned

planVars == <<tasks, dependencies, parallel_groups, description, max_retries,
              human_input_callback, goal_id, store_fails, llm_response>>
taskVars == <<status, retry_count, tool>>
runVars == <<executed_tasks, results, pc, idx, cur, caller>>
requestVars == <<requests, human_inputs, pending_human_inputs>>
historyVars == <<dispatch_log, dispatch_phase, escalation_checks, attempts, invoked, failures, gateway_result>>
patternVars == <<patterns, patterns_file>>
plannerVars == <<goal_tasks, plan_data>>
storeVars == <<session_files, saved_sessions>>

vars == <<planVars, taskVars, runVars, requestVars, historyVars, storeVars,
          patternVars, plannerVars, goal_status, loaded, ret>>

TaskSet == Range(tasks)

\* A faulty walk over the groups that starts with the last group.
GroupItems_LastGroupFirst ==
    Flatten([k \in DOMAIN parallel_groups |->
               parallel_groups[Len(parallel_groups) + 1 - k]])

\* The ids that the nested loops of _execute_plan lines 131-133 visit, in
\* the order they visit them.
GroupItems == Flatten(parallel_groups)

NoReturn == [op |-> "none", outcome |-> "none", arg |-> 0]

NoLoad == [id |-> <<>>, found |-> FALSE, session |-> <<>>]

\* No tool operation was attempted yet.
NoInvoke == GatewayResult("none", FALSE, FALSE, FALSE, None)

\* A planning response without the task_order and parallel_groups keys.
NoPlanData == [has_task_order |-> FALSE, task_order |-> <<>>, parallel_groups |-> <<>>]

\* The state right after the objects are constructed: tasks Pending with
\* retry_count 0 (models.py:33,42), nothing executed, no request, empty store.
InitRunState ==
    /\ status = [t \in TaskSet |-> PENDING]
    /\ retry_count = [t \in TaskSet |-> 0]
    /\ goal_status = PENDING
    /\ executed_tasks = {}
    /\ results = <<>>
    /\ human_inputs = <<>>
    /\ pending_human_inputs = {}
    /\ idx = 0
    /\ cur = None
    /\ caller = "none"
    /\ dispatch_log = <<>>
    /\ dispatch_phase = <<>>
    /\ escalation_checks = [t \in TaskSet |-> 0]
    /\ attempts = [t \in TaskSet |-> 0]
    /\ invoked = [t \in TaskSet |-> 0]
    /\ failures = [t \in TaskSet |-> 0]
    /\ session_files = {}
    /\ saved_sessions = {}
    /\ loaded = NoLoad
    /\ ret = NoReturn
    /\ gateway_result = NoInvoke
    /\ patterns = <<>>
    /\ patterns_file = <<>>
    /\ goal_tasks = tasks
    /\ plan_data = NoPlanData

\* The store works and the language model answers with one pattern.
InitEnvironment ==
    /\ store_fails = FALSE
    /\ llm_response = OptimizationAnswer

\* The decomposition named no tool: every tool is inferred from the description.
InitRun ==
    /\ InitEnvironment
    /\ tool = [t \in TaskSet |-> None]
    /\ requests = <<>>
    /\ pc = "idle"
    /\ InitRunState

\* The three-task chain A <- B <- C, its tasks in any plan order, no groups.
ChainDependencies == [t \in TaskIds |-> IF t = "A" THEN <<>> ELSE IF t = "B" THEN <<"A">> ELSE <<"B">>]

InitChainPlan ==
    /\ tasks \in Perms(TaskIds)
    /\ dependencies = ChainDependencies
    /\ parallel_groups = <<>>
    /\ description = [t \in TaskIds |-> IF t = "A" THEN DescCreate ELSE DescCommit]
    /\ goal_id = <<"g","1">>

\* Two tasks that do not escalate by vocabulary, with any of the dependency
\* lists and groups.
InitDependencyPlan ==
    /\ tasks = <<"A", "B">>
    /\ dependencies \in [{"A", "B"} -> DepLists]
    /\ parallel_groups \in GroupChoices
    /\ description = [t \in {"A", "B"} |-> DescCreate]
    /\ goal_id = <<"g","1">>

\* Two tasks, B depending on A, with any of the descriptions and groups.
InitEscalationPlan ==
    /\ tasks = <<"A", "B">>
    /\ dependencies = [t \in {"A", "B"} |-> IF t = "A" THEN <<>> ELSE <<"A">>]
    /\ parallel_groups \in GroupChoices
    /\ description \in [{"A", "B"} -> Descriptions \ {DescCommit}]
    /\ goal_id = <<"g","1">>

\* A plan without tasks.
InitEmptyPlan ==
    /\ tasks = <<>>
    /\ dependencies = <<>>
    /\ parallel_groups = <<>>
    /\ description = <<>>
    /\ goal_id = <<"g","1">>

Init ==
    /\ \/ InitChainPlan
       \/ InitDependencyPlan
       \/ InitEscalationPlan
       \/ InitEmptyPlan
    /\ \E m \in 0..MaxRetriesBound : max_retries = [t \in TaskSet |-> m]
    /\ human_input_callback \in HumanCallbacks
    /\ InitRun

\* ------------------------------------------- MemoryManager: the patterns

\* The unit of LearnedPattern.confidence: every quotient of two result counts
\* of the model is a whole number of units.
ConfidenceScale == 60

\* LearnedPattern.  uid is the pattern object's identity: its rank among the
\* patterns ever appended to the store.  confidence, a float between 0 and
\* 1, is counted in units of 1/ConfidenceScale.
LearnedPattern(uid, id, pattern_type, context, confidence, usage_count) ==
    [uid |-> uid, id |-> id, pattern_type |-> pattern_type, context |-> context,
     confidence |-> confidence, usage_count |-> usage_count]

\* A context or context filter is a mapping, written as its set of
\* <<key, value>> items.
GitContext == { <<"tool", "git">> }

\* The patterns handed to save_pattern and save_patterns (usage_count takes
\* its default 0, models.py:86); the uid is given when the pattern is appended.
NewPatterns ==
    { LearnedPattern(0, "p1", "successful_approach", {}, 0, 0),
      LearnedPattern(0, "p1", "successful_approach", GitContext, 0, 0),
      LearnedPattern(0, "p2", "failed_approach", GitContext, 0, 0),
      LearnedPattern(0, "p3", "successful_approach", GitContext, 5, 0) }

\* The lists handed to save_patterns.
PatternBatches ==
    { <<>>,
      << LearnedPattern(0, "p1", "successful_approach", {}, 0, 0),
         LearnedPattern(0, "p3", "successful_approach", GitContext, 5, 0) >> }

\* The ids handed to update_pattern_usage; no pattern has the id p4.
PatternIds == {"p1", "p2", "p4"}

\* The pattern_type arguments of get_patterns (None and "" are both falsy).
TypeFilters == {None, "", "successful_approach"}

\* The context_filter arguments of get_patterns (None and {} are both falsy;
\* {} stands for both).
ContextFilters == { {}, GitContext }

\* list.append / list.extend: the appended objects keep their identity.
AppendPatterns(store, batch) ==
    store \o [i \in DOMAIN batch |-> [batch[i] EXCEPT !.uid = Len(store) + i]]

\* The sort key (confidence, usage_count) of a >= that of b, as tuples compare.
KeyAtLeast(a, b) ==
    \/ a.confidence > b.confidence
    \/ a.confidence = b.confidence /\ a.usage_count >= b.usage_count

KeyAbove(a, b) ==
    \/ a.confidence > b.confidence
    \/ a.confidence = b.confidence /\ a.usage_count > b.usage_count

\* A faulty insertion that puts a pattern before the patterns of equal key
\* (what sorting ascending and reversing the list does).
InsertPattern_BeforeTies(sorted, p) ==
    LET n == Cardinality({i \in DOMAIN sorted : KeyAbove(sorted[i], p)}) IN
    SubSeq(sorted, 1, n) \o <<p>> \o SubSeq(sorted, n + 1, Len(sorted))

\* One step of the stable descending sort: p goes behind every pattern whose
\* key is at least p's (`sorted` is in descending key order).
InsertPattern(sorted, p) ==
    LET n == Cardinality({i \in DOMAIN sorted : KeyAtLeast(sorted[i], p)}) IN
    SubSeq(sorted, 1, n) \o <<p>> \o SubSeq(sorted, n + 1, Len(sorted))

\* list.sort(key=lambda p: (p.confidence, p.usage_count), reverse=True): a
\* stable sort, patterns of equal key keep their order in the list.
RECURSIVE SortPatterns(_)
SortPatterns(list) ==
    IF list = <<>> THEN <<>>
    ELSE InsertPattern(SortPatterns(SubSeq(list, 1, Len(list) - 1)), list[Len(list)])

\* get_patterns lines 78-88: every item of the filter is an item of the context.
ContextMatches(context, context_filter) ==
    \A item \in context_filter :
       \E c \in context : c[1] = item[1] /\ c[2] = item[2]

\* `if pattern_type:` / `if context_filter:`
TypeGiven(pattern_type) == pattern_type /= None /\ pattern_type /= ""
ContextGiven(context_filter) == context_filter /= {}

\* get_patterns lines 73-88: the list that is sorted.  Without a filter it
\* is the store's own list; a filter builds a new list.
FilterPatterns(store, pattern_type, context_filter) ==
    LET byType(q) == ~TypeGiven(pattern_type) \/ q.pattern_type = pattern_type
        byContext(q) == ~ContextGiven(context_filter) \/ ContextMatches(q.context, context_filter)
    IN SelectSeq(SelectSeq(store, byType), byContext)

\* get_patterns(pattern_type, context_filter): what it returns, and the
\* store afterwards (sorted in place when no filter was given).
GetPatternsResult(store, pattern_type, context_filter) ==
    SortPatterns(FilterPatterns(store, pattern_type, context_filter))

GetPatternsStore(store, pattern_type, context_filter) ==
    IF TypeGiven(pattern_type) \/ ContextGiven(context_filter)
    THEN store
    ELSE SortPatterns(store)

\* A faulty update_pattern_usage without the break: every pattern of the id
\* is counted.
TouchStore_NoBreak(store, pattern_id) ==
    [i \in DOMAIN store |->
       IF store[i].id = pattern_id
       THEN [store[i] EXCEPT !.usage_count = @ + 1]
       ELSE store[i]]

\* update_pattern_usage lines 102-107 on the list: the first pattern of the
\* id is counted, then the loop breaks.
TouchStore(store, pattern_id) ==
    [i \in DOMAIN store |->
       IF store[i].id = pattern_id /\ \A j \in 1..(i - 1) : store[j].id /= pattern_id
       THEN [store[i] EXCEPT !.usage_count = @ + 1]
       ELSE store[i]]

\* ---------------------------------------------------------- AdaptationAgent

\* The description of the goal handed to execute_goal.
GoalDescription == <<"t","i","d","y"," ","t","h","e"," ","r","e","p","o">>

\* n / d of two counts, as a confidence.
Ratio(n, d) == (n * ConfidenceScale) \div d

\* `result.error or "Unknown error"` (line 106)
ErrorOf(result) ==
    IF result.error = None \/ result.error = "" THEN "Unknown error" ELSE result.error

\* The keys of common_errors (lines 104-107), in the order a dict keeps them:
\* that of their first occurrence among the failed results.
RECURSIVE DistinctErrors(_)
DistinctErrors(failed_tasks) ==
    IF failed_tasks = <<>> THEN <<>>
    ELSE LET before == DistinctErrors(SubSeq(failed_tasks, 1, Len(failed_tasks) - 1))
             error == ErrorOf(failed_tasks[Len(failed_tasks)])
         IN IF error \in Range(before) THEN before ELSE Append(before, error)

\* common_errors[error]
Occurrences(failed_tasks, error) ==
    Cardinality({i \in DOMAIN failed_tasks : ErrorOf(failed_tasks[i]) = error})

\* _identify_patterns lines 82-98: one successful_approach pattern when a
\* result succeeded, with confidence successful / total.
SuccessfulApproach(goal_description, res) ==
    LET successful_tasks == SelectSeq(res, LAMBDA r : r.success) IN
    IF successful_tasks = <<>> THEN <<>>
    ELSE << LearnedPattern(0, "pattern_t", "successful_approach",
                           { <<"goal_type", goal_description>>,
                             <<"successful_tasks", Len(successful_tasks)>>,
                             <<"total_tasks", Len(res)>> },
                           Ratio(Len(successful_tasks), Len(res)), 1) >>

\* A faulty confidence of the failed_approach patterns: occurrences / total.
FailedApproaches_OverTotal(goal_description, res, len_patterns) ==
    LET failed_tasks == SelectSeq(res, LAMBDA r : ~r.success)
        errors == DistinctErrors(failed_tasks)
    IN [k \in DOMAIN errors |->
          LearnedPattern(0, "pattern_t_" \o ToString(len_patterns + k - 1), "failed_approach",
                         { <<"goal_type", goal_description>>,
                           <<"error", errors[k]>>,
                           <<"occurrences", Occurrences(failed_tasks, errors[k])>> },
                         Ratio(Occurrences(failed_tasks, errors[k]), Len(res)), 1)]

\* _identify_patterns lines 101-123: one failed_approach pattern per key of
\* common_errors, with confidence count / failed; len_patterns is the number
\* of patterns built before (it ends the first pattern's id).
FailedApproaches(goal_description, res, len_patterns) ==
    LET failed_tasks == SelectSeq(res, LAMBDA r : ~r.success)
        errors == DistinctErrors(failed_tasks)
    IN [k \in DOMAIN errors |->
          LearnedPattern(0, "pattern_t_" \o ToString(len_patterns + k - 1), "failed_approach",
                         { <<"goal_type", goal_description>>,
                           <<"error", errors[k]>>,
                           <<"occurrences", Occurrences(failed_tasks, errors[k])>> },
                         Ratio(Occurrences(failed_tasks, errors[k]), Len(failed_tasks)), 1)]

\* The LearnedPattern built from entry idx (0-based) of the answer, lines
\* 146-154: type "general" and confidence 0.5 when the key is absent.
LLMPattern(entry, idx0) ==
    LearnedPattern(0, "llm_pattern_t_" \o ToString(idx0),
                   IF entry.type = None THEN "general" ELSE entry.type,
                   {},
                   IF entry.confidence = None THEN Ratio(1, 2) ELSE entry.confidence,
                   1)

\* A faulty enrichment that keeps the patterns built before an entry failed.
IdentifyPatternsWithLLM_KeepsPartial(response) ==
    IF response.raises \/ ~response.has_patterns THEN <<>>
    ELSE LET good == {n \in 0..Len(response.patterns) :
                        \A i \in 1..n : response.patterns[i].is_mapping}
             n == CHOOSE m \in good : \A k \in good : k <= m
         IN [i \in 1..n |-> LLMPattern(response.patterns[i], i - 1)]

\* _identify_patterns_with_llm, lines 138-161: an exception of the call, or
\* of `p.get` on an entry that is no mapping, is caught and the step returns
\* the empty list; an answer without the "patterns" key gives the empty list.
IdentifyPatternsWithLLM(response) ==
    IF response.raises \/ ~response.has_patterns THEN <<>>
    ELSE IF \E i \in DOMAIN response.patterns : ~response.patterns[i].is_mapping THEN <<>>
    ELSE [i \in DOMAIN response.patterns |-> LLMPattern(response.patterns[i], i - 1)]

\* _identify_patterns(goal, results), lines 79-130: the patterns_learned of
\* analyze_and_adapt.
IdentifyPatterns(goal_description, res, response) ==
    LET successful == SuccessfulApproach(goal_description, res)
        patterns_so_far == successful \o FailedApproaches(goal_description, res, Len(successful))
    IN patterns_so_far \o (IF res /= <<>> THEN IdentifyPatternsWithLLM(response) ELSE <<>>)

\* -------------------------------------------------------- TaskOrchestrator

\* A faulty _can_execute_task that is content with one executed dependency.
CanExecuteTask_AnyDependency(t, executed) ==
    IF dependencies[t] = <<>> THEN TRUE
    ELSE \E i \in DOMAIN dependencies[t] : dependencies[t][i] \in executed

\* A faulty _can_execute_task that ignores the dependencies.
CanExecuteTask_Always(t, executed) == TRUE

\* _can_execute_task(task, executed_tasks)
CanExecuteTask(t, executed) ==
    IF dependencies[t] = <<>> THEN TRUE
    ELSE \A i \in DOMAIN dependencies[t] : dependencies[t][i] \in executed

\* Where _execute_plan stands once position i of the task loop is reached.
AtTasks(i) == IF i <= Len(tasks) THEN <<"tasks", i>> ELSE <<"finish", 0>>

\* Where _execute_plan stands once item i of the parallel groups is reached.
AtGroups(i) == IF i <= Len(GroupItems) THEN <<"groups", i>> ELSE AtTasks(1)

\* The loop position after item i of loop `phase`.
Advance(phase, i) == IF phase = "groups" THEN AtGroups(i + 1) ELSE AtTasks(i + 1)

\* execution_time = time.time() - start_time: one clock tick stands for a
\* measured duration, 0 for the literal 0.0 of the escalation results.
MeasuredTime == 1

ExecutionResult(t, ok, err, time) ==
    [task_id |-> t, success |-> ok, error |-> err, execution_time |-> time]

\* _execute_plan lines 137-139 / 145-147: the result is appended, the task id
\* joins executed_tasks and the loop moves on.
ReturnToPlan(t, res, phase, i) ==
    /\ results' = Append(results, res)
    /\ executed_tasks' = executed_tasks \cup {t}
    /\ pc' = Advance(phase, i)[1]
    /\ idx' = Advance(phase, i)[2]
    /\ cur' = None
    /\ caller' = "none"

\* A faulty retry test that allows one retry too many.
ShouldRetry_OffByOne(t) == retry_count[t] <= max_retries[t]

\* A faulty retry test that never retries.
ShouldRetry_Never(t) == FALSE

\* execute_task line 79: retry while retry_count < max_retries.
ShouldRetry(t) == retry_count[t] < max_retries[t]

\* _execute_task_with_checks line 170: `if self.human_input_callback`.
UseCallback == human_input_callback /= None

\* A faulty execute_task that marks a task without a tool Failed.
ExecuteTaskEntry_NoToolFails(t, phase, i) ==
    LET inferred == IF tool[t] = None THEN InferTool(description[t]) ELSE tool[t] IN
    /\ status' = [status EXCEPT ![t] = IF inferred = None THEN FAILED ELSE IN_PROGRESS]
    /\ tool' = [tool EXCEPT ![t] = inferred]
    /\ UNCHANGED <<retry_count, attempts, invoked, failures, gateway_result>>
    /\ IF inferred = None
       THEN ReturnToPlan(t, ExecutionResult(t, FALSE, "No tool specified", MeasuredTime), phase, i)
       ELSE /\ pc' = "tool"
            /\ cur' = t
            /\ caller' = phase
            /\ UNCHANGED <<results, executed_tasks, idx>>

\* ExecutorAgent.execute_task up to the call of _execute_tool_operation
\* (lines 38-59): the task becomes InProgress, a missing tool is inferred, and
\* without a tool the result is returned at once.
ExecuteTaskEntry(t, phase, i) ==
    LET inferred == IF tool[t] = None THEN InferTool(description[t]) ELSE tool[t] IN
    /\ status' = [status EXCEPT ![t] = IN_PROGRESS]
    /\ tool' = [tool EXCEPT ![t] = inferred]
    /\ UNCHANGED <<retry_count, attempts, invoked, failures, gateway_result>>
    /\ IF inferred = None
       THEN ReturnToPlan(t, ExecutionResult(t, FALSE, "No tool specified", MeasuredTime), phase, i)
       ELSE /\ pc' = "tool"
            /\ cur' = t
            /\ caller' = phase
            /\ UNCHANGED <<results, executed_tasks, idx>>

\* A faulty check that asks should_escalate only the first time a task is
\* dispatched.
EvaluatesEscalation_OncePerTask(t) == escalation_checks[t] = 0

\* _execute_task_with_checks line 161: should_escalate is called on every
\* call, whatever happened to the task before.
EvaluatesEscalation(t) == TRUE

\* A faulty _execute_task_with_checks that, without a callback, makes the
\* request and executes the task all the same.
ExecuteTaskWithChecks_ExecutesUnresolved(t, phase, i) ==
    \E multi \in (IF EscalatesByKeyword(description[t]) THEN {FALSE} ELSE BOOLEAN) :
      LET evaluated == EvaluatesEscalation(t)
          escalate == evaluated /\ ShouldEscalate(description[t], multi)
          rid == Len(requests) + 1
          request == [id |-> rid, goal_id |-> goal_id, task_id |-> t,
                      options |-> <<>>, resolved |-> FALSE, response |-> PyNone]
      IN
      /\ dispatch_log' = Append(dispatch_log, t)
      /\ dispatch_phase' = Append(dispatch_phase, phase)
      /\ escalation_checks' = [escalation_checks EXCEPT ![t] = IF evaluated THEN @ + 1 ELSE @]
      /\ IF ~escalate
         THEN /\ UNCHANGED requestVars
              /\ ExecuteTaskEntry(t, phase, i)
         ELSE /\ human_inputs' = Append(human_inputs, rid)
              /\ pending_human_inputs' = pending_human_inputs \cup {rid}
              /\ requests' = Append(requests, request)
              /\ IF UseCallback
                 THEN /\ pc' = "callback"
                      /\ cur' = t
                      /\ caller' = phase
                      /\ UNCHANGED <<taskVars, results, executed_tasks, idx,
                                     attempts, invoked, failures, gateway_result>>
                 ELSE ExecuteTaskEntry(t, phase, i)

\* _execute_task_with_checks(task, session), as far as its first wait: the
\* escalation check and the request, then the call of the callback, for
\* whose return the orchestrator waits, or the entry of the executor.
ExecuteTaskWithChecks(t, phase, i) ==
    \E multi \in (IF EscalatesByKeyword(description[t]) THEN {FALSE} ELSE BOOLEAN) :
      LET evaluated == EvaluatesEscalation(t)
          escalate == evaluated /\ ShouldEscalate(description[t], multi)
          rid == Len(requests) + 1
          request == [id |-> rid, goal_id |-> goal_id, task_id |-> t,
                      options |-> <<>>, resolved |-> FALSE, response |-> PyNone]
      IN
      /\ dispatch_log' = Append(dispatch_log, t)
      /\ dispatch_phase' = Append(dispatch_phase, phase)
      /\ escalation_checks' = [escalation_checks EXCEPT ![t] = IF evaluated THEN @ + 1 ELSE @]
      /\ IF ~escalate
         THEN /\ UNCHANGED requestVars
              /\ ExecuteTaskEntry(t, phase, i)
         ELSE /\ human_inputs' = Append(human_inputs, rid)
              /\ pending_human_inputs' = pending_human_inputs \cup {rid}
              /\ requests' = Append(requests, request)
              /\ IF UseCallback
                 THEN \* line 171: the callback is called
                      /\ pc' = "callback"
                      /\ cur' = t
                      /\ caller' = phase
                      /\ UNCHANGED <<taskVars, results, executed_tasks, idx,
                                     attempts, invoked, failures, gateway_result>>
                 ELSE /\ status' = [status EXCEPT ![t] = WAITING_FOR_HUMAN]
                      /\ UNCHANGED <<retry_count, tool, attempts, invoked, failures, gateway_result>>
                      /\ ReturnToPlan(t,
                           ExecutionResult(t, FALSE, "Waiting for human input", 0),
                           phase, i)

\* _execute_task_with_checks lines 171-198, once the callback has returned:
\* the response is processed, which marks the request resolved, and the task
\* is refused or handed to the executor.  Nothing else runs in between: the
\* callback is an ordinary call inside the loop of _execute_plan.
CallbackReturn ==
    /\ pc = "callback"
    /\ LET t == cur
           rid == Len(requests)
           response == PyStr(human_input_callback)
       IN
       /\ requests' = [requests EXCEPT ![rid].resolved = TRUE, ![rid].response = response]
       /\ UNCHANGED <<human_inputs, pending_human_inputs, dispatch_log, dispatch_phase,
                      escalation_checks>>
       /\ IF ~ProcessHumanResponse(requests[rid].options, response).success
          THEN /\ status' = [status EXCEPT ![t] = FAILED]
               /\ UNCHANGED <<retry_count, tool, attempts, invoked, failures, gateway_result>>
               /\ ReturnToPlan(t, ExecutionResult(t, FALSE, "Human input required", 0),
                               caller, idx)
          ELSE ExecuteTaskEntry(t, caller, idx)
    /\ UNCHANGED <<planVars, patternVars, plannerVars, storeVars, goal_status, loaded, ret>>

\* execute_goal lines 69-85: the goal becomes InProgress, the stored patterns
\* are read for the planner, the session is created and _execute_plan starts.
ExecuteGoal ==
    /\ pc = "idle"
    /\ goal_status' = IN_PROGRESS
    /\ pc' = AtGroups(1)[1]
    /\ idx' = AtGroups(1)[2]
    \* line 75: get_patterns() without filters, for the planner
    /\ patterns' = GetPatternsStore(patterns, None, {})
    /\ UNCHANGED <<planVars, patterns_file, plannerVars, taskVars, executed_tasks, results, cur, caller,
                   requestVars, historyVars, storeVars, loaded, ret>>

\* _execute_plan lines 131-139: one item of a parallel group.
GroupStep ==
    /\ pc = "groups"
    /\ LET t == GroupItems[idx] IN
       IF t \in TaskSet /\ CanExecuteTask(t, executed_tasks)
       THEN ExecuteTaskWithChecks(t, "groups", idx)
       ELSE /\ pc' = Advance("groups", idx)[1]
            /\ idx' = Advance("groups", idx)[2]
            /\ UNCHANGED <<taskVars, executed_tasks, results, cur, caller,
                           requestVars, historyVars>>
    /\ UNCHANGED <<planVars, patternVars, plannerVars, storeVars, goal_status, loaded, ret>>

\* _execute_plan lines 142-147: one task of the sequential pass.
TaskStep ==
    /\ pc = "tasks"
    /\ LET t == tasks[idx] IN
       IF t \notin executed_tasks /\ CanExecuteTask(t, executed_tasks)
       THEN ExecuteTaskWithChecks(t, "tasks", idx)
       ELSE /\ pc' = Advance("tasks", idx)[1]
            /\ idx' = Advance("tasks", idx)[2]
            /\ UNCHANGED <<taskVars, executed_tasks, results, cur, caller,
                           requestVars, historyVars>>
    /\ UNCHANGED <<planVars, patternVars, plannerVars, storeVars, goal_status, loaded, ret>>

\* A faulty retry that hands a result for the failed attempt to the plan run.
RetryTask_RecordsAttempt(t) ==
    /\ retry_count' = [retry_count EXCEPT ![t] = @ + 1]
    /\ status' = [status EXCEPT ![t] = IN_PROGRESS]
    /\ results' = Append(results, ExecutionResult(t, FALSE, "retrying", MeasuredTime))
    /\ UNCHANGED <<executed_tasks, pc, idx, cur, caller, ret>>

\* A faulty retry that counts one retry as two.
RetryTask_CountsTwice(t) ==
    /\ retry_count' = [retry_count EXCEPT ![t] = @ + 2]
    /\ status' = [status EXCEPT ![t] = IN_PROGRESS]
    /\ UNCHANGED <<runVars, ret>>

\* execute_task lines 79-85: retry_count is incremented and execute_task
\* calls itself on the same task (InProgress again, same tool); what the
\* inner call returns is what the outer call returns, so the plan run sees
\* nothing of the failed attempt.
RetryTask(t) ==
    /\ retry_count' = [retry_count EXCEPT ![t] = @ + 1]
    /\ status' = [status EXCEPT ![t] = IN_PROGRESS]
    /\ UNCHANGED <<runVars, ret>>

\* execute_task lines 59-112: _execute_tool_operation is called and what it
\* hands back is handled.  Reading result["success"] of a mapping without the
\* key raises KeyError; an exception inside the try block is caught at line
\* 99 and turned into a failed result, without a retry.
ToolReturn ==
    /\ pc = "tool"
    /\ \E resolved \in {ResolveOperation(tool[cur], description[cur])} :
       \E behaviour \in ToolBehaviours :
       \E result \in {ExecuteToolOperation(resolved, behaviour)} :
         LET t == cur
             exception == IF result.raised THEN "Exception"
                          ELSE IF ~result.has_success THEN "KeyError"
                          ELSE None
         IN
         /\ gateway_result' = result
         /\ attempts' = [attempts EXCEPT ![t] = @ + 1]
         /\ invoked' = [invoked EXCEPT ![t] = IF result.cause = "NoOperation" THEN @ ELSE @ + 1]
         /\ failures' = [failures EXCEPT ![t] = IF exception = None /\ ~result.success
                                                THEN @ + 1 ELSE @]
         /\ UNCHANGED <<tool, dispatch_log, dispatch_phase, escalation_checks>>
         /\ IF exception /= None
            THEN IF ExecutorCatches(exception)
                 THEN /\ status' = [status EXCEPT ![t] = FAILED]
                      /\ UNCHANGED <<retry_count, ret>>
                      /\ ReturnToPlan(t, ExecutionResult(t, FALSE, exception, MeasuredTime),
                                      caller, idx)
                 ELSE \* the exception leaves execute_task and execute_goal
                      /\ pc' = "raised"
                      /\ ret' = [op |-> "execute_goal", outcome |-> "raised", arg |-> 0]
                      /\ UNCHANGED <<status, retry_count, executed_tasks, results,
                                     idx, cur, caller>>
            ELSE IF result.success
            THEN /\ status' = [status EXCEPT ![t] = COMPLETED]
                 /\ UNCHANGED <<retry_count, ret>>
                 /\ ReturnToPlan(t, ExecutionResult(t, TRUE, None, MeasuredTime), caller, idx)
            ELSE IF ShouldRetry(t)
            THEN RetryTask(t)
            ELSE /\ status' = [status EXCEPT ![t] = FAILED]
                 /\ UNCHANGED <<retry_count, ret>>
                 /\ ReturnToPlan(t, ExecutionResult(t, FALSE, result.error, MeasuredTime),
                                 caller, idx)
    /\ UNCHANGED <<planVars, patternVars, plannerVars, requestVars, storeVars,
                   goal_status, loaded>>

\* A faulty goal status that reports Failed as soon as one task failed.
GoalStatusAfterRun_AnyFailed ==
    IF \A i \in DOMAIN tasks : status[tasks[i]] = COMPLETED THEN COMPLETED
    ELSE IF \E i \in DOMAIN tasks : status[tasks[i]] = FAILED THEN FAILED
    ELSE IN_PROGRESS

\* execute_goal lines 98-110: all(...) over execution_plan.tasks, completed first.
GoalStatusAfterRun ==
    IF \A i \in DOMAIN tasks : status[tasks[i]] = COMPLETED THEN COMPLETED
    ELSE IF \A i \in DOMAIN tasks : status[tasks[i]] = FAILED THEN FAILED
    ELSE IN_PROGRESS

\* ------------------------------------------------------------ MemoryManager

\* Session ids handed to the session store directly.
SessionIds == { <<"s","1">>, <<"s","2">> }

\* Task statuses of the sessions handed to the session store directly.
StatusLists == { <<>>, <<COMPLETED>>, <<COMPLETED, FAILED>>, <<WAITING_FOR_HUMAN, PENDING>> }

\* A faulty file name that does not depend on the session id.
SessionFile_Fixed(session_id) == <<"s","e","s","s","i","o","n",".","j","s","o","n">>

\* `self.sessions_dir / f"{session_id}.json"`
SessionFile(session_id) == session_id \o <<".","j","s","o","n">>

\* The session_data mapping that save_session writes (lines 118-130).
SessionData(session) ==
    [id |-> session.id,
     goal |-> [id |-> session.goal_id, status |-> session.goal_status,
               tasks |-> session.task_status],
     execution_plan |-> [goal_id |-> session.goal_id, tasks |-> session.task_status],
     results |-> session.results,
     adaptations |-> session.adaptations,
     human_inputs |-> session.human_inputs]

\* The GoalSession that load_session rebuilds (lines 158-169): id, goal and
\* execution_plan come from the file, every other field takes its default.
SessionFromData(data) ==
    [id |-> data.id,
     goal_id |-> data.goal.id,
     goal_status |-> data.goal.status,
     task_status |-> data.execution_plan.tasks,
     results |-> <<>>,
     adaptations |-> <<>>,
     human_inputs |-> <<>>]

FileExists(name) == \E f \in session_files : f.name = name

ReadFile(name) == (CHOOSE f \in session_files : f.name = name).data

\* open(session_file, "w") and json.dump: the file is created or replaced.
WriteFile(name, data) ==
    {f \in session_files : f.name /= name} \cup {[name |-> name, data |-> data]}

\* save_session(session) when the file can be opened
SaveSessionEffect(session) ==
    /\ session_files' = WriteFile(SessionFile(session.id), SessionData(session))
    /\ saved_sessions' = {s \in saved_sessions : s.id /= session.id} \cup {session}

\* _save_patterns, lines 197-206: the list is written; an exception of the
\* write is caught and printed, which leaves the file as it was.
SavePatternsFile(store) == IF store_fails THEN patterns_file ELSE store

\* The GoalSession of the run: execute_goal lines 80, 86, 89-92 (the
\* AdaptationUpdate is written as its patterns_learned).
RunSession ==
    [id |-> goal_id,
     goal_id |-> goal_id,
     goal_status |-> GoalStatusAfterRun,
     task_status |-> [i \in DOMAIN tasks |-> status[tasks[i]]],
     results |-> results,
     adaptations |-> << IdentifyPatterns(GoalDescription, results, llm_response) >>,
     human_inputs |-> [i \in DOMAIN human_inputs |-> requests[human_inputs[i]]]]

\* execute_goal lines 86-118 after _execute_plan returned: the results are
\* analysed, the learned patterns are saved, the goal status is derived from
\* the task statuses and the session is saved.  save_session opens the file
\* outside of any try block (memory_manager.py:132), so an OSError of the
\* store leaves execute_goal.
FinishGoal ==
    /\ pc = "finish"
    /\ patterns' = AppendPatterns(patterns, RunSession.adaptations[1])
    /\ patterns_file' = SavePatternsFile(patterns')
    /\ goal_status' = GoalStatusAfterRun
    /\ IF store_fails
       THEN /\ pc' = "raised"
            /\ ret' = [op |-> "execute_goal", outcome |-> "raised", arg |-> 0]
            /\ UNCHANGED storeVars
       ELSE /\ SaveSessionEffect(RunSession)
            /\ pc' = "done"
            /\ ret' = [op |-> "execute_goal", outcome |-> "session", arg |-> 0]
    /\ UNCHANGED <<planVars, plannerVars, taskVars, executed_tasks, results, idx, cur, caller,
                   requestVars, historyVars, loaded>>

\* provide_human_input line 223: `for t in request.goal_id` walks the
\* characters of the goal id string; reading `.id` of a character raises
\* AttributeError, and an empty goal id leaves the task unfound.
LookupTask(request) ==
    IF request.goal_id /= <<>> THEN "AttributeError" ELSE None

\* A faulty provide_human_input without the membership test of line 213:
\* reading the table with an unknown id raises KeyError.
ProvideHumanInput_NoMembershipTest(rid, response) ==
    /\ pc = "done"
    /\ IF rid \notin pending_human_inputs
       THEN /\ ret' = [op |-> "provide_human_input", outcome |-> "raised", arg |-> rid]
            /\ UNCHANGED <<requests, taskVars, historyVars>>
       ELSE LET request == requests[rid]
                processed == ProcessHumanResponse(request.options, PyStr(response)).success
                task == LookupTask(request)
            IN
            /\ requests' = [requests EXCEPT ![rid].resolved = TRUE,
                                            ![rid].response = PyStr(response)]
            /\ ret' = [op |-> "provide_human_input",
                       outcome |-> IF ~processed THEN "invalid_response"
                                   ELSE IF task = "AttributeError" THEN "raised"
                                   ELSE "processed",
                       arg |-> rid]
            /\ UNCHANGED <<taskVars, historyVars>>
    /\ UNCHANGED <<planVars, patternVars, plannerVars, runVars, human_inputs, pending_human_inputs,
                   storeVars, goal_status, loaded>>

\* provide_human_input(request_id, response)
ProvideHumanInput(rid, response) ==
    /\ pc = "done"
    /\ IF rid \notin pending_human_inputs
       THEN /\ ret' = [op |-> "provide_human_input", outcome |-> "not_found", arg |-> rid]
            /\ UNCHANGED <<requests, taskVars, historyVars>>
       ELSE LET request == requests[rid]
                processed == ProcessHumanResponse(request.options, PyStr(response)).success
                task == LookupTask(request)
            IN
            /\ requests' = [requests EXCEPT ![rid].resolved = TRUE,
                                            ![rid].response = PyStr(response)]
            /\ ret' = [op |-> "provide_human_input",
                       outcome |-> IF ~processed THEN "invalid_response"
                                   ELSE IF task = "AttributeError" THEN "raised"
                                   ELSE "processed",
                       arg |-> rid]
            \* lines 228-231 need a task object, which the lookup never yields
            /\ UNCHANGED <<taskVars, historyVars>>
    /\ UNCHANGED <<planVars, patternVars, plannerVars, runVars, human_inputs, pending_human_inputs,
                   storeVars, goal_status, loaded>>

\* One call of execute_goal.
Next ==
    \/ ExecuteGoal
    \/ GroupStep
    \/ TaskStep
    \/ CallbackReturn
    \/ ToolReturn
    \/ FinishGoal

Spec == Init /\ [][Next]_vars

\* A call of execute_goal on a plan whose tasks may escalate, followed by
\* calls of provide_human_input.
InitHuman ==
    /\ tasks = <<"A", "B">>
    /\ dependencies = [t \in {"A", "B"} |-> IF t = "A" THEN <<>> ELSE <<"A">>]
    /\ parallel_groups \in {<<>>, << <<"A", "A">> >>}
    /\ description \in [{"A", "B"} -> {DescDelete, DescCreate}]
    /\ goal_id \in GoalIds
    /\ \E m \in {0, 1} : max_retries = [t \in TaskSet |-> m]
    /\ human_input_callback \in HumanCallbacks
    /\ InitRun

NextHuman ==
    \/ Next
    \/ \E rid \in 1..(Len(requests) + 1), response \in Responses :
          ProvideHumanInput(rid, response)

SpecHuman == InitHuman /\ [][NextHuman]_vars

\* A call of execute_goal on a one-task plan whose task names its tool.
InitTools ==
    /\ tasks = <<"A">>
    /\ dependencies = [t \in {"A"} |-> <<>>]
    /\ parallel_groups \in {<<>>, << <<"A">> >>}
    /\ description \in [{"A"} -> {DescCreate, DescCheck, DescMaybe}]
    /\ goal_id = <<"g","1">>
    /\ \E m \in 0..MaxRetriesBound : max_retries = [t \in TaskSet |-> m]
    /\ human_input_callback \in HumanCallbacks
    /\ tool \in [{"A"} -> GivenTools]
    /\ requests = <<>>
    /\ pc = "idle"
    /\ InitEnvironment
    /\ InitRunState

SpecTools == InitTools /\ [][Next]_vars

\* -------------------------------------------------------- the pattern store

\* save_pattern(pattern)
SavePattern(pattern) ==
    /\ pc = "patterns"
    /\ Len(patterns) < MaxPatterns
    /\ patterns' = AppendPatterns(patterns, <<pattern>>)
    /\ patterns_file' = SavePatternsFile(patterns')
    /\ ret' = [op |-> "save_pattern", outcome |-> "none", arg |-> 0]
    /\ UNCHANGED <<planVars, plannerVars, taskVars, runVars, requestVars, historyVars,
                   storeVars, goal_status, loaded>>

\* save_patterns(patterns)
SavePatterns(batch) ==
    /\ pc = "patterns"
    /\ Len(patterns) + Len(batch) <= MaxPatterns
    /\ patterns' = AppendPatterns(patterns, batch)
    /\ patterns_file' = SavePatternsFile(patterns')
    /\ ret' = [op |-> "save_patterns", outcome |-> "none", arg |-> 0]
    /\ UNCHANGED <<planVars, plannerVars, taskVars, runVars, requestVars, historyVars,
                   storeVars, goal_status, loaded>>

\* get_patterns(pattern_type, context_filter)
GetPatterns(pattern_type, context_filter) ==
    /\ pc = "patterns"
    /\ patterns' = GetPatternsStore(patterns, pattern_type, context_filter)
    /\ ret' = [op |-> "get_patterns", outcome |-> <<pattern_type, context_filter>>,
               arg |-> GetPatternsResult(patterns, pattern_type, context_filter)]
    /\ UNCHANGED <<planVars, plannerVars, taskVars, runVars, requestVars, historyVars,
                   storeVars, goal_status, loaded, patterns_file>>

\* update_pattern_usage(pattern_id): the file is written only when a pattern
\* of the id was found.
UpdatePatternUsage(pattern_id) ==
    /\ pc = "patterns"
    /\ \A i \in DOMAIN patterns :
         patterns[i].id = pattern_id => patterns[i].usage_count < MaxUsage
    /\ patterns' = TouchStore(patterns, pattern_id)
    /\ patterns_file' = IF \E i \in DOMAIN patterns : patterns[i].id = pattern_id
                        THEN SavePatternsFile(patterns') ELSE patterns_file
    /\ ret' = [op |-> "update_pattern_usage", outcome |-> "none", arg |-> pattern_id]
    /\ UNCHANGED <<planVars, plannerVars, taskVars, runVars, requestVars, historyVars,
                   storeVars, goal_status, loaded>>

InitPatterns ==
    /\ InitEmptyPlan
    /\ max_retries = <<>>
    /\ human_input_callback = None
    /\ tool = <<>>
    /\ InitEnvironment
    /\ InitRunState
    /\ requests = <<>>
    /\ pc = "patterns"

NextPatterns ==
    \/ \E pattern \in NewPatterns : SavePattern(pattern)
    \/ \E batch \in PatternBatches : SavePatterns(batch)
    \/ \E pattern_type \in TypeFilters, context_filter \in ContextFilters :
          GetPatterns(pattern_type, context_filter)
    \/ \E pattern_id \in PatternIds : UpdatePatternUsage(pattern_id)

SpecPatterns == InitPatterns /\ [][NextPatterns]_vars

\* ------------------------------------------------------------ PlannerAgent

\* Goal.tasks as the decomposition leaves them: distinct ids (uuid4).
GoalTaskLists == { <<>>, <<"A", "B">>, <<"B", "A">>, <<"A", "B", "C">> }

\* The ids a planning response may name: the goal's and one that is no task.
ResponseIds == TaskIds \cup {UnknownId}

\* The task_order lists of a planning response.
TaskOrders == UNION {[1..n -> ResponseIds] : n \in 0..MaxOrderLen}

\* The parallel_groups of a planning response: those of the plan runs, groups
\* that name unknown ids, and a group list over three tasks.
ResponseGroups ==
    GroupChoices \cup
    { << <<UnknownId>> >>,
      << <<"A", UnknownId>>, <<UnknownId>>, <<"B">> >>,
      << <<"A", "B">>, <<"C">> >> }

\* The planning responses: with or without the task_order key.
PlanResponses ==
    { [has_task_order |-> TRUE, task_order |-> order, parallel_groups |-> groups] :
        order \in TaskOrders, groups \in ResponseGroups }
    \cup
    { [has_task_order |-> FALSE, task_order |-> <<>>, parallel_groups |-> groups] :
        groups \in ResponseGroups }

\* Lines 100-107: the tasks the response names, in its order, unknown ids
\* skipped; the goal's own list when the response has no task_order.
RECURSIVE NamedTasks(_, _)
NamedTasks(goal, order) ==
    IF order = <<>> THEN <<>>
    ELSE IF Head(order) \in Range(goal)
         THEN <<Head(order)>> \o NamedTasks(goal, Tail(order))
         ELSE NamedTasks(goal, Tail(order))

\* Lines 110-112: each goal task that is not in the list yet is appended, in
\* the goal's order.
RECURSIVE AppendMissing(_, _)
AppendMissing(ordered, rest) ==
    IF rest = <<>> THEN ordered
    ELSE IF Head(rest) \in Range(ordered)
         THEN AppendMissing(ordered, Tail(rest))
         ELSE AppendMissing(Append(ordered, Head(rest)), Tail(rest))

\* A faulty task order that leaves out the goal tasks the response omitted.
OrderedTasks_NoReappend(goal, data) ==
    IF data.has_task_order THEN NamedTasks(goal, data.task_order) ELSE goal

\* ordered_tasks of _create_plan_from_response (lines 99-112)
OrderedTasks(goal, data) ==
    AppendMissing(IF data.has_task_order THEN NamedTasks(goal, data.task_order) ELSE goal,
                  goal)

\* Lines 117-122: each group keeps its ids that are goal tasks; a group left
\* empty is dropped.
RECURSIVE ValidParallelGroups(_, _)
ValidParallelGroups(goal, groups) ==
    IF groups = <<>> THEN <<>>
    ELSE LET inGoal(tid) == tid \in Range(goal)
             valid_group == SelectSeq(Head(groups), inGoal)
         IN (IF valid_group /= <<>> THEN <<valid_group>> ELSE <<>>)
            \o ValidParallelGroups(goal, Tail(groups))

\* _create_plan_from_response(goal, plan_data)
CreatePlanFromResponse ==
    /\ pc = "plan"
    /\ tasks' = OrderedTasks(goal_tasks, plan_data)
    /\ parallel_groups' = ValidParallelGroups(goal_tasks, plan_data.parallel_groups)
    /\ pc' = "planned"
    /\ ret' = [op |-> "create_plan_from_response", outcome |-> "plan", arg |-> 0]
    /\ UNCHANGED <<dependencies, description, max_retries, human_input_callback, goal_id,
                   store_fails, llm_response,
                   patternVars, plannerVars, taskVars, executed_tasks, results, idx, cur,
                   caller, requestVars, historyVars, storeVars, goal_status, loaded>>

\* A goal and a planning response, before the plan is built.
InitPlanner ==
    /\ InitEmptyPlan
    /\ max_retries = <<>>
    /\ human_input_callback = None
    /\ tool = <<>>
    /\ status = <<>>
    /\ retry_count = <<>>
    /\ goal_status = PENDING
    /\ executed_tasks = {}
    /\ results = <<>>
    /\ requests = <<>>
    /\ human_inputs = <<>>
    /\ pending_human_inputs = {}
    /\ pc = "plan"
    /\ idx = 0
    /\ cur = None
    /\ caller = "none"
    /\ dispatch_log = <<>>
    /\ dispatch_phase = <<>>
    /\ escalation_checks = <<>>
    /\ attempts = <<>>
    /\ invoked = <<>>
    /\ failures = <<>>
    /\ session_files = {}
    /\ saved_sessions = {}
    /\ loaded = NoLoad
    /\ ret = NoReturn
    /\ gateway_result = NoInvoke
    /\ patterns = <<>>
    /\ patterns_file = <<>>
    /\ InitEnvironment
    /\ goal_tasks \in GoalTaskLists
    /\ plan_data \in PlanResponses

NextPlanner == CreatePlanFromResponse

SpecPlanner == InitPlanner /\ [][NextPlanner]_vars

\* ------------------------------------------- the human interface on its own

\* The options of the requests handed to process_human_response: none, and
\* lists of one and of two options ("1" is an option that reads like an index).
OptionLists == { <<>>, <<"yes">>, <<"yes", "no">>, <<"1", "yes">> }

\* The responses handed to process_human_response.
ResponseValues ==
    {PyInt(i) : i \in {-1, 0, 1, 2, 3}}
    \cup {PyStr(text) : text \in {"yes", "no", "1", "YES", ""}}
    \cup {PyBool(TRUE), PyBool(FALSE), PyFloatOne, PyNone}

\* process_human_response(request, response), called on the agent: the request
\* is marked resolved and keeps the raw response (lines 172-173), then the
\* response is validated.
ProcessHumanResponseCall(rid, response) ==
    /\ pc = "resolve"
    /\ requests' = [requests EXCEPT ![rid].resolved = TRUE, ![rid].response = response]
    /\ ret' = [op |-> "process_human_response",
               outcome |-> ProcessHumanResponse(requests[rid].options, response),
               arg |-> rid]
    /\ UNCHANGED <<planVars, patternVars, plannerVars, taskVars, runVars, human_inputs,
                   pending_human_inputs, historyVars, storeVars, goal_status, loaded>>

\* Two requests made with create_input_request, with any of the option lists.
InitResolve ==
    /\ InitEmptyPlan
    /\ max_retries = <<>>
    /\ human_input_callback = None
    /\ tool = <<>>
    /\ InitEnvironment
    /\ InitRunState
    /\ requests \in [1..2 -> {[id |-> 0, goal_id |-> goal_id, task_id |-> None,
                                options |-> options, resolved |-> FALSE,
                                response |-> PyNone] : options \in OptionLists}]
    /\ pc = "resolve"

NextResolve ==
    \E rid \in DOMAIN requests, response \in ResponseValues :
       ProcessHumanResponseCall(rid, response)

SpecResolve == InitResolve /\ [][NextResolve]_vars

\* ---------------------------------------------- the session store on its own

\* The sessions handed to save_session directly.
StoreSessions ==
    { [id |-> sid, goal_id |-> gid, goal_status |-> IN_PROGRESS, task_status |-> st,
       results |-> [i \in 1..n |-> ExecutionResult("A", TRUE, None, MeasuredTime)],
       adaptations |-> <<>>,
       human_inputs |-> <<>>] :
      sid \in SessionIds, gid \in GoalIds, st \in StatusLists, n \in 0..MaxResults }

\* save_session(session), called on the memory manager
SaveSession(session) ==
    /\ pc = "store"
    /\ IF store_fails
       THEN /\ ret' = [op |-> "save_session", outcome |-> "raised", arg |-> 0]
            /\ UNCHANGED storeVars
       ELSE /\ SaveSessionEffect(session)
            /\ ret' = [op |-> "save_session", outcome |-> "none", arg |-> 0]
    /\ UNCHANGED <<planVars, patternVars, plannerVars, taskVars, runVars, requestVars, historyVars,
                   goal_status, loaded>>

\* load_session(session_id): None when the file does not exist or cannot be
\* read (the exception is caught, lines 173-175), else the session rebuilt
\* from the file.
LoadSession(session_id) ==
    /\ pc = "store"
    /\ loaded' = IF ~FileExists(SessionFile(session_id)) \/ store_fails
                 THEN [id |-> session_id, found |-> FALSE, session |-> <<>>]
                 ELSE [id |-> session_id, found |-> TRUE,
                       session |-> SessionFromData(ReadFile(SessionFile(session_id)))]
    /\ ret' = [op |-> "load_session", outcome |-> "returned", arg |-> 0]
    /\ UNCHANGED <<planVars, patternVars, plannerVars, taskVars, runVars, requestVars, historyVars,
                   storeVars, goal_status>>

InitStore ==
    /\ InitEmptyPlan
    /\ max_retries = <<>>
    /\ human_input_callback = None
    /\ status = <<>>
    /\ retry_count = <<>>
    /\ tool = <<>>
    /\ goal_status = PENDING
    /\ executed_tasks = {}
    /\ results = <<>>
    /\ requests = <<>>
    /\ human_inputs = <<>>
    /\ pending_human_inputs = {}
    /\ pc = "store"
    /\ idx = 0
    /\ cur = None
    /\ caller = "none"
    /\ dispatch_log = <<>>
    /\ dispatch_phase = <<>>
    /\ escalation_checks = <<>>
    /\ attempts = <<>>
    /\ invoked = <<>>
    /\ failures = <<>>
    /\ session_files = {}
    /\ saved_sessions = {}
    /\ loaded = NoLoad
    /\ ret = NoReturn
    /\ gateway_result = NoInvoke
    /\ patterns = <<>>
    /\ patterns_file = <<>>
    /\ goal_tasks = <<>>
    /\ plan_data = NoPlanData
    /\ InitEnvironment

NextStore ==
    \/ \E session \in StoreSessions : SaveSession(session)
    \/ \E session_id \in SessionIds : LoadSession(session_id)

SpecStore == InitStore /\ [][NextStore]_vars

\* --------------------------------------------------- a group of two tasks

\* Two independent tasks in one parallel group, each of which may escalate.
InitGroup ==
    /\ tasks = <<"A", "B">>
    /\ dependencies = [t \in {"A", "B"} |-> <<>>]
    /\ parallel_groups = << <<"A", "B">> >>
    /\ description \in [{"A", "B"} -> {DescDelete, DescCreate}]
    /\ goal_id = <<"g","1">>
    /\ max_retries = [t \in {"A", "B"} |-> 0]
    /\ human_input_callback \in HumanCallbacks
    /\ InitRun

\* The steps that the orchestrator and the tools take on their own; when the
\* human behind the callback answers is up to the human.
EngineStep ==
    \/ ExecuteGoal
    \/ GroupStep
    \/ TaskStep
    \/ ToolReturn
    \/ FinishGoal

SpecGroup == InitGroup /\ [][Next]_vars /\ WF_vars(EngineStep)

\* -------------------------------------------- _can_execute_task on its own

\* The dependency lists handed to _can_execute_task: any list of ids, of
\* tasks and of no task, repeated ids included.
DependencyInputs == UNION {[1..n -> {"B", "C", UnknownId}] : n \in 0..MaxDeps}

\* _can_execute_task(task, executed_tasks), called on task A
CanExecuteTaskCall ==
    /\ pc = "eligible"
    /\ ret' = [op |-> "_can_execute_task",
               outcome |-> CanExecuteTask("A", executed_tasks), arg |-> 0]
    /\ pc' = "returned"
    /\ UNCHANGED <<planVars, patternVars, plannerVars, taskVars, executed_tasks, results,
                   idx, cur, caller, requestVars, historyVars, storeVars, goal_status, loaded>>

\* Task A with any dependency list, and any set of executed task ids.
InitEligible ==
    /\ tasks = <<"A", "B", "C">>
    /\ \E deps \in DependencyInputs :
          dependencies = [t \in TaskIds |-> IF t = "A" THEN deps ELSE <<>>]
    /\ parallel_groups = <<>>
    /\ description = [t \in TaskIds |-> DescCreate]
    /\ goal_id = <<"g","1">>
    /\ max_retries = [t \in TaskIds |-> 0]
    /\ human_input_callback = None
    /\ InitEnvironment
    /\ status = [t \in TaskIds |-> PENDING]
    /\ retry_count = [t \in TaskIds |-> 0]
    /\ tool = [t \in TaskIds |-> None]
    /\ goal_status = IN_PROGRESS
    /\ executed_tasks \in SUBSET TaskIds
    /\ results = <<>>
    /\ requests = <<>>
    /\ human_inputs = <<>>
    /\ pending_human_inputs = {}
    /\ pc = "eligible"
    /\ idx = 0
    /\ cur = None
    /\ caller = "none"
    /\ dispatch_log = <<>>
    /\ dispatch_phase = <<>>
    /\ escalation_checks = [t \in TaskIds |-> 0]
    /\ attempts = [t \in TaskIds |-> 0]
    /\ invoked = [t \in TaskIds |-> 0]
    /\ failures = [t \in TaskIds |-> 0]
    /\ session_files = {}
    /\ saved_sessions = {}
    /\ loaded = NoLoad
    /\ ret = NoReturn
    /\ gateway_result = NoInvoke
    /\ patterns = <<>>
    /\ patterns_file = <<>>
    /\ goal_tasks = tasks
    /\ plan_data = NoPlanData

NextEligible == CanExecuteTaskCall

SpecEligible == InitEligible /\ [][NextEligible]_vars

\* ------------------------------------------- a run that learns and saves

\* A call of execute_goal on three independent tasks, with any answer of the
\* language model to the pattern analysis prompt and a store that works or
\* fails.
InitLearn ==
    /\ tasks = <<"A", "B", "C">>
    /\ dependencies = [t \in TaskIds |-> <<>>]
    /\ parallel_groups \in {<<>>, << <<"B">> >>}
    /\ description = [t \in TaskIds |-> DescCreate]
    /\ goal_id = <<"g","1">>
    /\ max_retries = [t \in TaskIds |-> 0]
    /\ human_input_callback \in {None, "yes"}
    /\ store_fails \in BOOLEAN
    /\ llm_response \in LLMAnswers
    /\ tool = [t \in TaskIds |-> None]
    /\ requests = <<>>
    /\ pc = "idle"
    /\ InitRunState

SpecLearn == InitLearn /\ [][Next]_vars

\* ------------------------------------------------- the page of the frontend

\* streamlit_app.py lines 102-128: the page lists the requests of
\* pending_human_inputs; "Submit Response" calls provide_human_input on the
\* listed request and, when the mapping it returns has success true, deletes
\* the request from the table.  An exception of the call leaves the table as
\* it was.
SubmitResponse(rid, response) ==
    /\ pc = "done"
    /\ rid \in pending_human_inputs
    /\ LET request == requests[rid]
           processed == ProcessHumanResponse(request.options, PyStr(response)).success
           outcome == IF ~processed THEN "invalid_response"
                      ELSE IF LookupTask(request) = "AttributeError" THEN "raised"
                      ELSE "processed"
       IN
       /\ requests' = [requests EXCEPT ![rid].resolved = TRUE,
                                       ![rid].response = PyStr(response)]
       /\ ret' = [op |-> "submit_response", outcome |-> outcome, arg |-> rid]
       /\ pending_human_inputs' = IF outcome = "processed"
                                  THEN pending_human_inputs \ {rid}
                                  ELSE pending_human_inputs
    /\ UNCHANGED <<planVars, patternVars, plannerVars, taskVars, runVars, human_inputs,
                   historyVars, storeVars, goal_status, loaded>>

\* Two tasks, the first of them in a group or not, each of which may
\* escalate, with or without a callback.
InitFrontend ==
    /\ tasks = <<"A", "B">>
    /\ dependencies = [t \in {"A", "B"} |-> IF t = "A" THEN <<>> ELSE <<"A">>]
    /\ parallel_groups \in {<<>>, << <<"A">> >>}
    /\ description \in [{"A", "B"} -> {DescDelete, DescCreate}]
    /\ goal_id \in GoalIds
    /\ max_retries = [t \in {"A", "B"} |-> 0]
    /\ human_input_callback \in HumanCallbacks
    /\ InitRun

\* A call of execute_goal followed by submissions on the page.
NextFrontend ==
    \/ Next
    \/ \E rid \in DOMAIN requests, response \in Responses : SubmitResponse(rid, response)

SpecFrontend == InitFrontend /\ [][NextFrontend]_vars

\* ------------------------------------------------ plans of any shape, run to the end

\* The parallel groups of these plans: none, an id listed twice, and a group
\* that names an id which is no task of the plan.
TerminateGroups == { <<>>, << <<"A", "A">> >>, << <<UnknownId, "B">> >> }

\* The dependencies of these plans: none, B after A, a cycle of A and B, and
\* a dependency on an id which is no task of the plan.
TerminateDependencies ==
    { [t \in {"A", "B"} |-> <<>>],
      [t \in {"A", "B"} |-> IF t = "A" THEN <<>> ELSE <<"A">>],
      [t \in {"A", "B"} |-> IF t = "A" THEN <<"B">> ELSE <<"A">>],
      [t \in {"A", "B"} |-> IF t = "A" THEN <<>> ELSE <<UnknownId>>] }

\* Two tasks, of which A may escalate, with tools and a callback that return.
InitTerminate ==
    /\ tasks = <<"A", "B">>
    /\ dependencies \in TerminateDependencies
    /\ parallel_groups \in TerminateGroups
    /\ description \in {[t \in {"A", "B"} |-> IF t = "A" THEN d ELSE DescCreate] :
                           d \in {DescCreate, DescDelete}}
    /\ goal_id = <<"g","1">>
    /\ \E m \in {0, 1} : max_retries = [t \in TaskSet |-> m]
    /\ human_input_callback \in {None, "yes"}
    /\ InitRun

\* Every call that is under way returns: the tools, the callback and the
\* steps of the orchestrator itself.
SpecTerminate == InitTerminate /\ [][Next]_vars /\ WF_vars(Next)

\* ------------------------------------------------------------- properties

\* Every (pattern_type, context_filter) argument pair of the model.
PatternFilters == TypeFilters \X ContextFilters

\* How often task t was dispatched in the run.
Dispatches(t) == Cardinality({i \in DOMAIN dispatch_log : dispatch_log[i] = t})

\* The requests created for task t.
RequestsFor(t) == {r \in DOMAIN requests : requests[r].task_id = t}

\* The positions of task t's results in the result list.
ResultsOf(t) == {i \in DOMAIN results : results[i].task_id = t}

AllTasksHave(st) == \A i \in DOMAIN tasks : status[tasks[i]] = st

\* C1: in a plan run (group phase and sequential pass) a task with a
\* nonempty dependency list is dispatched only in a step that starts with
\* every one of its dependency ids in executed_tasks.
C1_DispatchOnlyAfterDependencies ==
    [][\A t \in TaskSet :
          ( /\ dispatch_log' = Append(dispatch_log, t)
            /\ dependencies[t] /= <<>> )
          => \A i \in DOMAIN dependencies[t] : dependencies[t][i] \in executed_tasks]_vars

\* C1 happens: tasks with dependencies were dispatched, one from a parallel
\* group and one in the sequential pass.
C1_Witness ==
    /\ pc = "done"
    /\ parallel_groups /= <<>>
    /\ \E i \in DOMAIN dispatch_log : dependencies[dispatch_log[i]] /= <<>>
    /\ \E t \in TaskSet : dependencies[t] /= <<>> /\ t \in executed_tasks
                           /\ t \notin Range(GroupItems)

\* C2: for the chain A <- B <- C without parallel groups and with tools that
\* always succeed, every order of the plan's task sequence ends the run with
\* all three tasks executed, A before B before C.
C2_ChainRunsInOrder ==
    ( /\ pc = "done"
      /\ tasks \in Perms(TaskIds)
      /\ dependencies = ChainDependencies
      /\ parallel_groups = <<>>
      /\ \A i \in DOMAIN results : results[i].success )
    => [i \in DOMAIN results |-> results[i].task_id] = <<"A", "B", "C">>

\* C3: a task dispatched once, with retry_count 0 at the start, whose every
\* tool attempt ended in a failure outcome, has made exactly max_retries + 1
\* attempts when its execution returns, is Failed, and has retry_count equal
\* to max_retries.
C3_RetryBound ==
    \A t \in TaskSet :
      ( /\ Dispatches(t) = 1
        /\ t \in executed_tasks
        /\ attempts[t] >= 1
        /\ failures[t] = attempts[t] )
      => /\ attempts[t] = max_retries[t] + 1
         /\ status[t] = FAILED
         /\ retry_count[t] = max_retries[t]

\* C3 happens: with the largest max_retries of the model, a task failed every
\* attempt and its execution returned.
C3_Witness ==
    \E t \in TaskSet :
      /\ Dispatches(t) = 1
      /\ t \in executed_tasks
      /\ max_retries[t] = MaxRetriesBound
      /\ failures[t] = attempts[t]
      /\ attempts[t] = MaxRetriesBound + 1
      /\ status[t] = FAILED

\* C4: without a callback, a dispatched task for which should_escalate holds
\* at every dispatch (the task described "delete the config file" is one) is
\* WaitingForHuman, each of its results is a failure with execution time 0,
\* and the tool registry has not been invoked for it.
C4_EscalationWithoutCallback ==
    human_input_callback = None =>
      \A t \in TaskSet :
        ( /\ Dispatches(t) >= 1
          /\ \/ description[t] = DescDelete
             \/ Cardinality(RequestsFor(t)) = Dispatches(t) )
        => /\ status[t] = WAITING_FOR_HUMAN
           /\ invoked[t] = 0
           /\ attempts[t] = 0
           /\ ResultsOf(t) /= {}
           /\ \A i \in ResultsOf(t) :
                ~results[i].success /\ results[i].execution_time = 0

\* C4 happens: the run is over, no callback was given, and the task
\* "delete the config file" was dispatched and waits for the human.
C4_Witness ==
    /\ pc = "done"
    /\ human_input_callback = None
    /\ \E t \in TaskSet :
         /\ description[t] = DescDelete
         /\ Dispatches(t) >= 1
         /\ status[t] = WAITING_FOR_HUMAN
         /\ invoked[t] = 0

\* C5: for each task id at most one request with that task id is unresolved.
C5_OneOpenRequestPerTask ==
    \A t \in TaskSet :
      Cardinality({r \in RequestsFor(t) : ~requests[r].resolved}) <= 1

\* C6: when the goal run is over, the goal is Completed if every task of the
\* plan is Completed, otherwise Failed if every task is Failed, and
\* InProgress in every other case.  (A plan without tasks ends Completed.)
C6_GoalStatus ==
    pc = "done" =>
      /\ AllTasksHave(COMPLETED) => goal_status = COMPLETED
      /\ (~AllTasksHave(COMPLETED) /\ AllTasksHave(FAILED)) => goal_status = FAILED
      /\ (~AllTasksHave(COMPLETED) /\ ~AllTasksHave(FAILED)) => goal_status = IN_PROGRESS

\* C6 happens: a run ended with one task Completed and another Failed, and
\* the goal is InProgress.
C6_Witness ==
    /\ pc = "done"
    /\ \E t \in TaskSet : status[t] = COMPLETED
    /\ \E t \in TaskSet : status[t] = FAILED
    /\ goal_status = IN_PROGRESS

\* C7: every change of a task's status follows Pending -> InProgress ->
\* {Completed, Failed, WaitingForHuman}; in particular no task goes from
\* Pending straight to Failed or WaitingForHuman, and none leaves Completed
\* or Failed.
C7_StatusStateMachine ==
    [][\A t \in TaskSet :
          status'[t] /= status[t] =>
            \/ status[t] = PENDING /\ status'[t] = IN_PROGRESS
            \/ status[t] = IN_PROGRESS
               /\ status'[t] \in {COMPLETED, FAILED, WAITING_FOR_HUMAN}]_vars

\* C8: provide_human_input on the pending request of a task that is
\* WaitingForHuman, with a response that resolves, re-executes the task: the
\* call returns an execution result and the task is Completed or Failed.
C8_ResumeAfterHumanInput ==
    [][\A rid \in pending_human_inputs :
          ( /\ ret' /= ret
            /\ ret'.op = "provide_human_input"
            /\ ret'.arg = rid
            /\ status[requests[rid].task_id] = WAITING_FOR_HUMAN
            /\ ProcessHumanResponse(requests[rid].options, requests'[rid].response).success )
          => /\ ret'.outcome = "executed"
             /\ status'[requests[rid].task_id] \in {COMPLETED, FAILED}]_vars

\* C9: right after load_session of an id under which a session was saved,
\* the loaded session has the saved session's goal id, its task statuses and
\* as many results.
C9_SessionRoundTrip ==
    \A s \in saved_sessions :
      (ret.op = "load_session" /\ loaded.id = s.id)
      => /\ loaded.found
         /\ loaded.session.goal_id = s.goal_id
         /\ loaded.session.task_status = s.task_status
         /\ Len(loaded.session.results) = Len(s.results)

\* C10: load_session of an id under which no session was ever saved returns
\* no session, whatever was saved and loaded under other ids.
C10_LoadUnknownId ==
    (ret.op = "load_session" /\ \A s \in saved_sessions : s.id /= loaded.id)
    => ~loaded.found

\* C10 happens: a session is stored under one id and the load of another id,
\* never saved, returned no session.
C10_Witness ==
    /\ ret.op = "load_session"
    /\ saved_sessions /= {}
    /\ \A s \in saved_sessions : s.id /= loaded.id
    /\ ~loaded.found

\* The last result that the plan run holds for task t.
LastResultOf(t) == results[CHOOSE i \in ResultsOf(t) : \A j \in ResultsOf(t) : j <= i]

\* The causes with which the registry itself builds a failure mapping.
GatewayErrors == {"ToolNotFound", "OperationNotFound", "InvocationError"}

\* C12: whatever the tool does (success, failure, exception, a mapping
\* without the success key, unregistered tool, missing operation), no
\* exception leaves the plan run: every dispatch that has returned left
\* exactly one ExecutionResult, and the last result of a task that is Failed
\* has success false.
C12_NoExceptionLeavesScheduler ==
    /\ pc /= "raised"
    /\ Len(results) = Len(dispatch_log) - (IF pc \in {"tool", "callback"} THEN 1 ELSE 0)
    /\ \A t \in TaskSet :
         (status[t] = FAILED /\ cur /= t)
         => ResultsOf(t) /= {} /\ ~LastResultOf(t).success

\* C12 happens: the tool handed back a mapping without the success key, the
\* KeyError was caught, and the run ended with the task Failed.
C12_Witness ==
    /\ pc = "done"
    /\ gateway_result.cause = "returned"
    /\ ~gateway_result.has_success
    /\ \E t \in TaskSet : status[t] = FAILED /\ ~LastResultOf(t).success

\* C14: an unregistered tool name, an operation the tool lacks and an
\* exception of the tool's method each come back from the registry as a
\* mapping with success false and an error message, never as an exception,
\* and the executor treats each the same way: a retry while retry_count <
\* max_retries, else the task is Failed with a failed result carrying the
\* registry's error.
C14_GatewayFailuresUniform ==
    [][\A t \in TaskSet :
          ( /\ attempts'[t] = attempts[t] + 1
            /\ gateway_result'.cause \in GatewayErrors )
          => /\ ~gateway_result'.raised
             /\ gateway_result'.has_success
             /\ ~gateway_result'.success
             /\ gateway_result'.error /= None
             /\ IF retry_count[t] < max_retries[t]
                THEN /\ retry_count'[t] = retry_count[t] + 1
                     /\ status'[t] = IN_PROGRESS
                     /\ pc' = "tool"
                     /\ results' = results
                ELSE /\ retry_count'[t] = retry_count[t]
                     /\ status'[t] = FAILED
                     /\ results' = Append(results,
                            ExecutionResult(t, FALSE, gateway_result'.error, MeasuredTime))]_vars

\* C14 happens: the tool's method raised at every attempt, the retries were
\* used up and the task ended Failed.
C14_Witness ==
    /\ pc = "done"
    /\ gateway_result.cause = "InvocationError"
    /\ \E t \in TaskSet :
         /\ max_retries[t] = MaxRetriesBound
         /\ retry_count[t] = max_retries[t]
         /\ attempts[t] = max_retries[t] + 1
         /\ status[t] = FAILED

\* C11: a get_patterns that directly follows a get_patterns with the same
\* filters returns the same patterns in the same order; and no get_patterns
\* changes what a get_patterns, with whatever filters, returns next.
C11_GetIsIdempotent ==
    [][ret'.op = "get_patterns" =>
         /\ (ret.op = "get_patterns" /\ ret.outcome = ret'.outcome) => ret'.arg = ret.arg
         /\ \A f \in PatternFilters :
              GetPatternsResult(patterns', f[1], f[2]) = GetPatternsResult(patterns, f[1], f[2])]_vars

\* C11 happens: an unfiltered get_patterns returned two patterns of equal
\* key and, sorting the store in place, left it in another order than the
\* patterns were saved in.
C11_Witness ==
    /\ ret.op = "get_patterns"
    /\ ret.outcome = <<None, {}>>
    /\ \E i, j \in DOMAIN ret.arg :
         /\ i < j
         /\ ret.arg[i].confidence = ret.arg[j].confidence
         /\ ret.arg[i].usage_count = ret.arg[j].usage_count
    /\ \E i, j \in DOMAIN patterns : i < j /\ patterns[i].uid > patterns[j].uid

\* C17: what get_patterns returned is exactly the stored patterns that match
\* the type filter and contain every item of the context filter, each once,
\* in descending order of (confidence, usage_count), and patterns of equal
\* (confidence, usage_count) in the order in which they were saved.
C17_GetFilteredSortedStable ==
    ret.op = "get_patterns" =>
      LET got == ret.arg
          pattern_type == ret.outcome[1]
          context_filter == ret.outcome[2]
          matches(q) ==
            /\ TypeGiven(pattern_type) => q.pattern_type = pattern_type
            /\ \A item \in context_filter : item \in q.context
      IN
      /\ Range(got) = {q \in Range(patterns) : matches(q)}
      /\ \A i, j \in DOMAIN got : i < j =>
           /\ got[i].uid /= got[j].uid
           /\ KeyAtLeast(got[i], got[j])
           /\ (got[i].confidence = got[j].confidence
                /\ got[i].usage_count = got[j].usage_count)
              => got[i].uid < got[j].uid

\* C18: update_pattern_usage(id) leaves the number of patterns unchanged and,
\* when some stored pattern has the id, changes exactly one pattern, one with
\* that id, and only by adding one to its usage_count (also when several
\* stored patterns share the id); when none has the id the store is unchanged.
C18_TouchExactlyOne ==
    [][ret'.op = "update_pattern_usage" =>
         LET changed == {i \in DOMAIN patterns : patterns'[i] /= patterns[i]} IN
         /\ DOMAIN patterns' = DOMAIN patterns
         /\ IF \E i \in DOMAIN patterns : patterns[i].id = ret'.arg
            THEN /\ Cardinality(changed) = 1
                 /\ \A i \in changed :
                      /\ patterns[i].id = ret'.arg
                      /\ patterns'[i] = [patterns[i] EXCEPT !.usage_count = @ + 1]
            ELSE changed = {}]_vars

\* C18 happens: two stored patterns share the id just touched; one of them
\* was counted and the other was not.
C18_Witness ==
    /\ ret.op = "update_pattern_usage"
    /\ \E i, j \in DOMAIN patterns :
         /\ i /= j
         /\ patterns[i].id = ret.arg
         /\ patterns[j].id = ret.arg
         /\ patterns[i].usage_count = 1
         /\ patterns[j].usage_count = 0

\* C15: after process_human_response on a request with fixed options, the
\* call succeeded exactly when the response is an integer i (an instance of
\* int) with 1 <= i <= number of options, and then option i is selected, or is
\* a string equal to one of the options, and then that option is selected;
\* every other response fails with the invalid-selection error.  On a request
\* without options every response succeeds.
C15_ResolveResponse ==
    ret.op = "process_human_response" =>
      LET request == requests[ret.arg]
          options == request.options
          response == request.response
          index == IsInstanceInt(response) /\ response.int \in 1..Len(options)
          text == IsInstanceStr(response) /\ \E i \in DOMAIN options : options[i] = response.str
      IN
      IF Len(options) = 0
      THEN ret.outcome.success
      ELSE /\ ret.outcome.success <=> (index \/ text)
           /\ index => ret.outcome.selected_option = options[response.int]
           /\ text => ret.outcome.selected_option = response.str
           /\ ~ret.outcome.success => ret.outcome.error = "Invalid response"

\* C15 happens: on a request with two options the response 2 selected the
\* second one.
C15_Witness ==
    /\ ret.op = "process_human_response"
    /\ Len(requests[ret.arg].options) = 2
    /\ requests[ret.arg].response = PyInt(2)
    /\ ret.outcome.success
    /\ ret.outcome.selected_option = requests[ret.arg].options[2]

\* C16: a step that resolves a request leaves it resolved with the raw
\* response stored, and a request that is resolved is never changed again: it
\* stays resolved and keeps its stored response.
C16_ResolutionIsTerminal ==
    [][\A rid \in DOMAIN requests :
          /\ requests'[rid].response /= requests[rid].response => requests'[rid].resolved
          /\ requests[rid].resolved =>
               /\ requests'[rid].resolved
               /\ requests'[rid].response = requests[rid].response]_vars

\* The positions of the group list in which task id tid occurs.
GroupsOf(tid) == {g \in DOMAIN parallel_groups : tid \in Range(parallel_groups[g])}

\* C19: the task sequence of the plan built from a planning response is the
\* response's task_order restricted to the goal's tasks (ids that are no goal
\* task are ignored), followed by the goal tasks the order omits, in the
\* goal's order; so it contains every task of the goal.
C19_PlanTaskOrder ==
    pc = "planned" =>
      LET inGoal(tid) == tid \in Range(goal_tasks)
          named == IF plan_data.has_task_order
                   THEN SelectSeq(plan_data.task_order, inGoal)
                   ELSE <<>>
          omitted(tid) == tid \notin Range(named)
      IN /\ tasks = named \o SelectSeq(goal_tasks, omitted)
         /\ Range(goal_tasks) \subseteq Range(tasks)

\* C19 happens: the response's order named an unknown id and only one of the
\* goal's three tasks, and not the first one.
C19_Witness ==
    /\ pc = "planned"
    /\ Len(goal_tasks) = 3
    /\ plan_data.has_task_order
    /\ UnknownId \in Range(plan_data.task_order)
    /\ Range(plan_data.task_order) \cap Range(goal_tasks) = {goal_tasks[2]}
    /\ Len(tasks) = 3
    /\ tasks[1] = goal_tasks[2]

\* C20: in every plan built, each id in a parallel group is the id of a task
\* of the plan's task sequence, and no id occurs in two different groups.
C20_PlanGroupsWellFormed ==
    pc = "planned" =>
      /\ \A g \in DOMAIN parallel_groups : Range(parallel_groups[g]) \subseteq Range(tasks)
      /\ \A tid \in Range(tasks) : Cardinality(GroupsOf(tid)) <= 1

\* C21: a task whose tool failed k times (1 <= k <= max_retries) before its
\* final attempt has exactly one ExecutionResult per dispatch that has
\* returned, and none for a dispatch that is still retrying: the failed
\* intermediate attempts leave no result.
C21_OneResultPerRetriedTask ==
    \A t \in TaskSet :
      (retry_count[t] >= 1 /\ retry_count[t] <= max_retries[t]) =>
        Cardinality(ResultsOf(t)) = Dispatches(t) - (IF cur = t THEN 1 ELSE 0)

\* A task dispatched once that failed MaxRetriesBound times, succeeded on its
\* final attempt and has its one, successful, result.
C21_Witness ==
    \E t \in TaskSet :
      /\ retry_count[t] = MaxRetriesBound
      /\ attempts[t] = MaxRetriesBound + 1
      /\ Dispatches(t) = 1
      /\ status[t] = COMPLETED
      /\ Cardinality(ResultsOf(t)) = 1
      /\ LastResultOf(t).success

\* C22: when a plan run is over, a task with a dependency that did not reach
\* Completed in the run (it failed, waits for a human, was never executed, or
\* names no task) was never executed: it is Pending, has no result and was
\* not dispatched.  Stated for runs that dispatch no task twice, where a
\* dependency that is not Completed at the end was Completed at no time.
C22_UncompletedDependencyBlocks ==
    (pc = "done" /\ \A u \in TaskSet : Dispatches(u) <= 1) =>
      \A t \in TaskSet :
        (\E i \in DOMAIN dependencies[t] :
            \/ dependencies[t][i] \notin TaskSet
            \/ status[dependencies[t][i]] /= COMPLETED)
        => /\ status[t] = PENDING
           /\ ResultsOf(t) = {}
           /\ Dispatches(t) = 0

\* C23: a task is Completed or Failed only after at least one invocation
\* attempt was made for it (a call of _execute_tool_operation, which derives
\* the operation and calls the registry), or after a human response to one of
\* its requests was refused; never with zero attempts and no such decision.
C23_TerminalOnlyAfterAttempt ==
    \A t \in TaskSet :
      status[t] \in {COMPLETED, FAILED} =>
        \/ attempts[t] >= 1
        \/ \E r \in RequestsFor(t) :
              /\ requests[r].resolved
              /\ ~ProcessHumanResponse(requests[r].options, requests[r].response).success

\* One task is Failed after its attempts, while another, for which no tool
\* could be inferred, has returned a failed result without any attempt.
C23_Witness ==
    \E t, u \in TaskSet :
      /\ status[t] = FAILED
      /\ attempts[t] >= 1
      /\ attempts[u] = 0
      /\ ResultsOf(u) /= {}
      /\ status[u] = IN_PROGRESS

\* C24: when the underlying store fails with an I/O error, no operation of
\* the pattern memory lets the error out: a goal run on a failing store still
\* returns its session.
C24_StoreFailureSwallowed ==
    store_fails => (pc /= "raised" /\ ret.outcome /= "raised")

\* The patterns_learned of the session that execute_goal returned.
LearnedPatterns == (CHOOSE s \in saved_sessions : s.id = goal_id).adaptations[1]

\* The positions of the patterns of a type among the learned patterns.
LearnedOfType(pattern_type) ==
    {i \in DOMAIN LearnedPatterns : LearnedPatterns[i].pattern_type = pattern_type}

SucceededResults == {i \in DOMAIN results : results[i].success}

FailedResults == {i \in DOMAIN results : ~results[i].success}

\* The distinct error strings among the failed results.
FailedErrors == {ErrorOf(results[i]) : i \in FailedResults}

\* The failed results with a given error string.
FailedWith(error) == {i \in FailedResults : ErrorOf(results[i]) = error}

RECURSIVE SumConfidence(_, _)
SumConfidence(list, positions) ==
    IF positions = {} THEN 0
    ELSE LET i == CHOOSE j \in positions : TRUE
         IN list[i].confidence + SumConfidence(list, positions \ {i})

\* The patterns at the given positions of a list are: one successful_approach
\* pattern iff a result succeeded, with confidence succeeded / total; and one
\* failed_approach pattern per distinct error string of the failed results,
\* with confidence occurrences / failed, these confidences summing to 1.
AnalysisOf(list, positions) ==
    LET successful == {i \in positions : list[i].pattern_type = "successful_approach"}
        failed == {i \in positions : list[i].pattern_type = "failed_approach"}
    IN
    /\ Cardinality(successful) = (IF SucceededResults /= {} THEN 1 ELSE 0)
    /\ \A i \in successful :
          list[i].confidence * Cardinality(DOMAIN results)
            = Cardinality(SucceededResults) * ConfidenceScale
    /\ Cardinality(failed) = Cardinality(FailedErrors)
    /\ \A error \in FailedErrors :
          \E i \in failed :
            /\ <<"error", error>> \in list[i].context
            /\ list[i].confidence * Cardinality(FailedResults)
                 = Cardinality(FailedWith(error)) * ConfidenceScale
    /\ FailedResults /= {} => SumConfidence(list, failed) = ConfidenceScale

OwnPatternCount == (IF SucceededResults /= {} THEN 1 ELSE 0) + Cardinality(FailedErrors)

EnrichmentFailed ==
    \/ llm_response.raises
    \/ ~llm_response.has_patterns
    \/ \E i \in DOMAIN llm_response.patterns : ~llm_response.patterns[i].is_mapping

\* C26: when the enrichment step fails, the analysis still returns (the run
\* ends with its session unless the store fails) and the patterns are the
\* ones the analysis derives itself, the enrichment adding none.
C26_FailedEnrichmentAddsNothing ==
    /\ pc = "raised" => store_fails
    /\ (pc = "done" /\ EnrichmentFailed) =>
          /\ Len(LearnedPatterns) = OwnPatternCount
          /\ \A i \in DOMAIN LearnedPatterns :
                /\ LearnedPatterns[i].pattern_type \in {"successful_approach", "failed_approach"}
                /\ LearnedPatterns[i].context /= {}

\* The answer's first entry was usable and its second was not; the run
\* ended with results of both kinds and only the analysis' own patterns.
C26_Witness ==
    /\ pc = "done"
    /\ llm_response.has_patterns
    /\ Len(llm_response.patterns) = 2
    /\ EnrichmentFailed
    /\ SucceededResults /= {}
    /\ FailedResults /= {}
    /\ Len(LearnedPatterns) = OwnPatternCount

\* C27: _can_execute_task(task, executed) is true iff every id of the task's
\* dependency list is a member of the executed set; in particular it is true
\* for a task with an empty dependency list, whatever the executed set.
C27_CanExecuteIffAllExecuted ==
    ret.op = "_can_execute_task" =>
      /\ ret.outcome = (Range(dependencies["A"]) \subseteq executed_tasks)
      /\ dependencies["A"] = <<>> => ret.outcome

\* The call returned false for a list of two ids of which one is executed,
\* with a nonempty executed set.
C27_Witness ==
    /\ ret.op = "_can_execute_task"
    /\ ~ret.outcome
    /\ Len(dependencies["A"]) = 2
    /\ \E i \in DOMAIN dependencies["A"] : dependencies["A"][i] \in executed_tasks

\* a is b with some of its entries left out.
RECURSIVE IsSubsequence(_, _)
IsSubsequence(a, b) ==
    IF a = <<>> THEN TRUE
    ELSE IF b = <<>> THEN FALSE
    ELSE IF Head(a) = Head(b) THEN IsSubsequence(Tail(a), Tail(b))
    ELSE IsSubsequence(a, Tail(b))

\* C28: in a plan run the dispatches of the parallel groups come first, in
\* the order of the groups and of the ids in them, then those of the
\* sequential pass, in the order of the plan's task sequence; and a task is
\* dispatched only when every task dispatched before has returned its result.
C28_GroupsInOrderThenSequence ==
    /\ Len(dispatch_log) - Len(results) \in {0, 1}
    /\ Len(dispatch_log) > Len(results) => cur = dispatch_log[Len(dispatch_log)]
    /\ \E n \in 0..Len(dispatch_log) :
          /\ \A i \in 1..n : dispatch_phase[i] = "groups"
          /\ \A i \in (n + 1)..Len(dispatch_log) : dispatch_phase[i] = "tasks"
          /\ IsSubsequence(SubSeq(dispatch_log, 1, n), Flatten(parallel_groups))
          /\ IsSubsequence(SubSeq(dispatch_log, n + 1, Len(dispatch_log)), tasks)

\* The groups [[B], [A]] of the plan [A, B] were run in their order, B before
\* A, each returning its result before the next dispatch.
C28_Witness ==
    /\ pc = "done"
    /\ tasks = <<"A", "B">>
    /\ dispatch_log = <<"B", "A">>
    /\ dispatch_phase = <<"groups", "groups">>
    /\ Len(results) = 2

\* Task t waits for the callback to return the human's response.
BlockedOnHuman(t) == pc = "callback" /\ cur = t

\* Two tasks are listed in one parallel group.
InOneGroup(t, u) == \E g \in DOMAIN parallel_groups : {t, u} \subseteq Range(parallel_groups[g])

\* C29: while one task of a parallel group waits for the synchronous human
\* response, another ready task of the same group is dispatched and
\* completes without that response: whenever A waits for the callback and B,
\* of the same group, is ready and has not run, B gets its result, also when
\* the human never answers.
C29_GroupMemberProceedsWhileBlocked ==
    ( /\ BlockedOnHuman("A")
      /\ InOneGroup("A", "B")
      /\ CanExecuteTask("B", executed_tasks)
      /\ ResultsOf("B") = {} )
    ~> (ResultsOf("B") /= {})

C31_MissingSuccessKeyIsFailure ==
    [][ ( /\ pc = "tool"
          /\ attempts' /= attempts
          /\ gateway_result'.cause = "returned"
          /\ ~gateway_result'.has_success )
        => ( /\ pc' /= "raised"
             /\ results' = Append(results, ExecutionResult(cur, FALSE, "KeyError", MeasuredTime))
             /\ status'[cur] = FAILED
             /\ retry_count' = retry_count
             /\ cur \in executed_tasks' ) ]_vars

\* A tool of a task with retries left returned a mapping without the success
\* key; the task is Failed at once and its failed result is in the list.
C31_Witness ==
    /\ pc \in {"tasks", "finish"}
    /\ gateway_result.cause = "returned"
    /\ ~gateway_result.has_success
    /\ results /= <<>>
    /\ \E t \in TaskSet :
         /\ results[Len(results)] = ExecutionResult(t, FALSE, "KeyError", MeasuredTime)
         /\ status[t] = FAILED
         /\ retry_count[t] = 0
         /\ max_retries[t] > 0

\* C32: when the tool operation hands back a failure outcome (a mapping
\* whose success is false), the executor retries the same task while
\* retry_count < max_retries, adding exactly one to retry_count and handing
\* no result to the plan run; otherwise it marks the task Failed, which
\* therefore happens only with retry_count = max_retries, and returns a
\* failed result that carries the error of this last outcome.
C32_RetryUntilExhausted ==
    [][ ( /\ pc = "tool"
          /\ failures' /= failures )
        => IF retry_count[cur] < max_retries[cur]
           THEN /\ retry_count' = [retry_count EXCEPT ![cur] = @ + 1]
                /\ pc' = "tool"
                /\ cur' = cur
                /\ status'[cur] /= FAILED
                /\ results' = results
           ELSE /\ status'[cur] = FAILED
                /\ retry_count' = retry_count
                /\ retry_count[cur] = max_retries[cur]
                /\ results' = Append(results,
                                ExecutionResult(cur, FALSE, gateway_result'.error, MeasuredTime)) ]_vars

\* A task with two retries was retried twice on an operation its tool lacks
\* and is Failed after the third failure outcome, with the registry's error.
C32_Witness ==
    /\ gateway_result.cause = "OperationNotFound"
    /\ results /= <<>>
    /\ \E t \in TaskSet :
         /\ status[t] = FAILED
         /\ max_retries[t] = 2
         /\ retry_count[t] = 2
         /\ failures[t] = 3
         /\ results[Len(results)] = ExecutionResult(t, FALSE, gateway_result.error, MeasuredTime)

\* C33: in one plan run each task is dispatched at most once and contributes
\* at most one ExecutionResult, also when its id occurs more than once in the
\* parallel groups (twice in one group, or in two groups).
C33_EachTaskDispatchedOnce ==
    \A t \in TaskSet :
      /\ Dispatches(t) <= 1
      /\ Cardinality(ResultsOf(t)) <= 1

\* C34: whenever the execution of a task has returned, its result and its
\* status agree: the result has success true exactly when the task is
\* Completed, with success false the task is Failed or WaitingForHuman, and
\* the task is not left InProgress, a task without a tool whose tool cannot
\* be inferred from its description included.
C34_ResultAndStatusAgree ==
    \A t \in TaskSet :
      (ResultsOf(t) /= {} /\ cur /= t) =>
         /\ LastResultOf(t).success <=> status[t] = COMPLETED
         /\ ~LastResultOf(t).success => status[t] \in {FAILED, WAITING_FOR_HUMAN}
         /\ status[t] /= IN_PROGRESS

\* C35: every task, which starts with retry_count 0, has
\* 0 <= retry_count <= max_retries in every state; no step lowers a
\* retry_count, neither a further dispatch of the task nor
\* provide_human_input resets it; so the tool attempts of a task over all
\* its executions number at most max_retries plus the number of executions.
C35_RetryCountBounded ==
    /\ [](\A t \in TaskSet :
            /\ 0 <= retry_count[t]
            /\ retry_count[t] <= max_retries[t]
            /\ attempts[t] <= max_retries[t] + Dispatches(t))
    /\ [][\A t \in TaskSet : retry_count'[t] >= retry_count[t]]_vars

\* A task with one retry was executed twice: the first execution used the
\* retry, the second had none left, and the bound is met exactly.
C35_Witness ==
    \E t \in TaskSet :
      /\ max_retries[t] = 1
      /\ retry_count[t] = 1
      /\ Dispatches(t) = 2
      /\ attempts[t] = 3
      /\ cur /= t

\* Request r was resolved with a response that process_human_response accepts.
ResolvedSuccessfully(r) ==
    /\ requests[r].resolved
    /\ ProcessHumanResponse(requests[r].options, requests[r].response).success

\* C36: for a task for which should_escalate is true (at each of its
\* dispatches, so that each made a request), the tool is invoked only after
\* the task's request has been resolved successfully: while a tool operation
\* of the task is under way every request of the task is resolved
\* successfully, and a task with a tool attempt has such a request, whatever
\* calls of provide_human_input follow the plan run.
C36_ToolOnlyAfterResolution ==
    \A t \in TaskSet :
      Cardinality(RequestsFor(t)) = Dispatches(t) =>
         /\ (pc = "tool" /\ cur = t) => \A r \in RequestsFor(t) : ResolvedSuccessfully(r)
         /\ attempts[t] >= 1 => \E r \in RequestsFor(t) : ResolvedSuccessfully(r)
         /\ (\A r \in RequestsFor(t) : ~requests[r].resolved) => attempts[t] = 0

\* A destructive task was dispatched twice with a callback answering yes;
\* both requests were resolved before its tool ran, and provide_human_input
\* was called after the run.
C36_Witness ==
    /\ ret.op = "provide_human_input"
    /\ \E t \in TaskSet :
         /\ IsDestructiveOperation(description[t])
         /\ Dispatches(t) = 2
         /\ Cardinality(RequestsFor(t)) = 2
         /\ attempts[t] >= 2
         /\ \A r \in RequestsFor(t) : ResolvedSuccessfully(r)

\* C37: get_patterns is a pure read: with every filter combination, none
\* included, it leaves the stored pattern list as it was, in content and in
\* order, so that the list a later save writes is in insertion order.
C37_GetIsPureRead ==
    /\ [][ret'.op = "get_patterns" => patterns' = patterns]_vars
    /\ [](\A i, j \in DOMAIN patterns_file :
            i < j => patterns_file[i].uid < patterns_file[j].uid)

\* C38: pending_human_inputs holds only unresolved requests: a request that
\* was resolved, by the callback during the run or by provide_human_input,
\* is no longer in the table, so provide_human_input cannot find and answer
\* it again.
C38_PendingTableHoldsUnresolved ==
    \A r \in pending_human_inputs : ~requests[r].resolved

\* The tasks that were dispatched in the run.
DispatchedTasks == Range(dispatch_log)

RECURSIVE AttemptBudget(_)
AttemptBudget(S) ==
    IF S = {} THEN 0
    ELSE LET t == CHOOSE x \in S : TRUE
         IN max_retries[t] + 1 + AttemptBudget(S \ {t})

RECURSIVE TotalAttempts(_)
TotalAttempts(S) ==
    IF S = {} THEN 0
    ELSE LET t == CHOOSE x \in S : TRUE
         IN attempts[t] + TotalAttempts(S \ {t})

\* C39: with tools and callbacks that return, the plan run ends for every
\* plan (cyclic dependencies, dependencies on unknown ids and groups naming
\* unknown ids included); the tool invocations of the run number at most the
\* sum of max_retries + 1 over the dispatched tasks; and a task that was
\* never eligible, hence never dispatched, is left Pending without a result.
C39_RunTerminatesWithinBudget ==
    /\ <>(pc = "done")
    /\ [](TotalAttempts(TaskSet) <= AttemptBudget(DispatchedTasks))
    /\ [](\A t \in TaskSet \ DispatchedTasks :
            status[t] = PENDING /\ ResultsOf(t) = {} /\ attempts[t] = 0)

\* C40: provide_human_input with a request id that is not in
\* pending_human_inputs returns the 'not found' failure mapping without
\* raising and changes no request, no task status and no retry_count (the
\* not found outcome is returned for such ids only); and no call of
\* provide_human_input, one with an invalid response included, changes a
\* task's status or invokes a tool, so a task in WaitingForHuman stays there.
\* After the run every step is a call of provide_human_input.
C40_UnknownRequestChangesNothing ==
    [][ pc = "done" =>
          /\ ret'.op = "provide_human_input"
          /\ ret'.arg \notin pending_human_inputs <=> ret'.outcome = "not_found"
          /\ ret'.outcome = "not_found" =>
                /\ requests' = requests
                /\ pending_human_inputs' = pending_human_inputs
                /\ status' = status
                /\ retry_count' = retry_count
          /\ status' = status
          /\ attempts' = attempts
          /\ invoked' = invoked ]_vars

\* provide_human_input was called with an unknown id while a task waits for
\* the human and its request is unresolved.
C40_Witness ==
    /\ ret.op = "provide_human_input"
    /\ ret.outcome = "not_found"
    /\ ret.arg \notin pending_human_inputs
    /\ \E r \in pending_human_inputs :
         /\ ~requests[r].resolved
         /\ status[requests[r].task_id] = WAITING_FOR_HUMAN

====
